---------------------------- MODULE Spec2Model ----------------------------
(***************************************************************************)
(* The browser-redirect handshake of the kube-bind example backend         *)
(* (handler.handleAuthorize / handleCallback / handleResources /           *)
(* handleBind) and the APIServiceExport reconciler, as a state machine.    *)
(*                                                                         *)
(* A string is a sequence of bytes.  A byte is written as a one-character  *)
(* TLA+ string when it is printable ASCII ("a", ":", "\"") and as "x<n>"   *)
(* (n its decimal value, "x255") otherwise, so that traces stay readable.  *)
(***************************************************************************)
EXTENDS Naturals, Sequences, FiniteSets, TLC

(***************************************************************************)
(* Bytes                                                                   *)
(***************************************************************************)

\* ASCII 0x20 .. 0x7E in code order (0x60 has no TLA+ string and is "x96")
Ascii ==
  << " ", "!", "\"", "#", "$", "%", "&", "'", "(", ")", "*", "+", ",", "-", ".", "/",
     "0", "1", "2", "3", "4", "5", "6", "7", "8", "9", ":", ";", "<", "=", ">", "?",
     "@", "A", "B", "C", "D", "E", "F", "G", "H", "I", "J", "K", "L", "M", "N", "O",
     "P", "Q", "R", "S", "T", "U", "V", "W", "X", "Y", "Z", "[", "\\", "]", "^", "_",
     "x96", "a", "b", "c", "d", "e", "f", "g", "h", "i", "j", "k", "l", "m", "n", "o",
     "p", "q", "r", "s", "t", "u", "v", "w", "x", "y", "z", "{", "|", "}", "~" >>

\* the byte with value n
Chr(n) == IF n >= 32 /\ n <= 126 THEN Ascii[n - 31] ELSE "x" \o ToString(n)

ChrTable == [n \in 0..255 |-> Chr(n)]

\* the value of byte c
Ord(c) == CHOOSE n \in 0..255 : ChrTable[n] = c

OrdTable == [c \in {ChrTable[n] : n \in 0..255} |-> Ord(c)]

\* []byte(s) as numbers, and back
Bytes(s) == [i \in 1..Len(s) |-> OrdTable[s[i]]]
Str(bs) == [i \in 1..Len(bs) |-> ChrTable[bs[i]]]

\* the concatenation of the strings ss[lo], ..., ss[hi], by halves
RECURSIVE ConcatRange(_, _, _)
ConcatRange(ss, lo, hi) ==
  IF lo > hi THEN <<>>
  ELSE IF lo = hi THEN ss[lo]
  ELSE ConcatRange(ss, lo, (lo + hi) \div 2) \o ConcatRange(ss, ((lo + hi) \div 2) + 1, hi)

Concat(ss) == ConcatRange(ss, 1, Len(ss))

\* the first index >= i at which s holds byte c, or Len(s) + 1
IndexFrom(s, c, i) ==
  IF \E j \in i..Len(s) : s[j] = c
    THEN CHOOSE j \in i..Len(s) : s[j] = c /\ \A k \in i..(j - 1) : s[k] # c
    ELSE Len(s) + 1

\* strings.Split(s, sep) for a one-byte separator
RECURSIVE Split(_, _)
Split(s, sep) ==
  LET i == IndexFrom(s, sep, 1)
  IN IF i > Len(s) THEN << s >>
     ELSE << SubSeq(s, 1, i - 1) >> \o Split(SubSeq(s, i + 1, Len(s)), sep)

\* strings.SplitN(s, sep, 2) for a one-byte separator
SplitN2(s, sep) ==
  LET i == IndexFrom(s, sep, 1)
  IN IF i > Len(s) THEN << s >>
     ELSE << SubSeq(s, 1, i - 1), SubSeq(s, i + 1, Len(s)) >>

(***************************************************************************)
(* encoding/base64                                                         *)
(***************************************************************************)

StdAlphabet ==
  << "A", "B", "C", "D", "E", "F", "G", "H", "I", "J", "K", "L", "M", "N", "O", "P",
     "Q", "R", "S", "T", "U", "V", "W", "X", "Y", "Z", "a", "b", "c", "d", "e", "f",
     "g", "h", "i", "j", "k", "l", "m", "n", "o", "p", "q", "r", "s", "t", "u", "v",
     "w", "x", "y", "z", "0", "1", "2", "3", "4", "5", "6", "7", "8", "9", "+", "/" >>

URLAlphabet == [i \in 1..64 |-> IF i = 63 THEN "-" ELSE IF i = 64 THEN "_" ELSE StdAlphabet[i]]

\* base64.StdEncoding (padded) and base64.RawURLEncoding (unpadded)
StdEncoding == [alphabet |-> StdAlphabet, pad |-> TRUE]
RawURLEncoding == [alphabet |-> URLAlphabet, pad |-> FALSE]

InAlphabet(enc, c) == \E i \in 1..64 : enc.alphabet[i] = c
Sextet(enc, c) == (CHOOSE i \in 1..64 : enc.alphabet[i] = c) - 1

\* Encoding.EncodeToString over byte values: the k-th quantum of b
EncodeQuantum(enc, b, k) ==
  LET a == enc.alphabet
      i == 3 * k - 2
      n == Len(b) - i + 1
      b2 == IF n >= 2 THEN b[i + 1] ELSE 0
      b3 == IF n >= 3 THEN b[i + 2] ELSE 0
      v == b[i] * 65536 + b2 * 256 + b3
      c1 == a[(v \div 262144) + 1]
      c2 == a[((v \div 4096) % 64) + 1]
      c3 == a[((v \div 64) % 64) + 1]
      c4 == a[(v % 64) + 1]
  IN IF n >= 3 THEN << c1, c2, c3, c4 >>
     ELSE IF n = 2 THEN << c1, c2, c3 >> \o (IF enc.pad THEN << "=" >> ELSE <<>>)
     ELSE << c1, c2 >> \o (IF enc.pad THEN << "=", "=" >> ELSE <<>>)

EncodeBytes(enc, b) ==
  Concat([k \in 1..((Len(b) + 2) \div 3) |-> EncodeQuantum(enc, b, k)])

EncodeToString(enc, s) == EncodeBytes(enc, Bytes(s))

\* Encoding.DecodeString, the k-th quantum of s: [ok, val]; a byte outside
\* the alphabet, a short last quantum or misplaced padding is a
\* CorruptInputError (non-strict: the unused low bits of the last quantum are
\* not checked)
DecodeQuantum(enc, s, k) ==
  LET i == 4 * k - 3
      n == IF Len(s) - i + 1 > 4 THEN 4 ELSE Len(s) - i + 1
      final == i + 3 >= Len(s)
      In(j) == j <= n /\ InAlphabet(enc, s[i + j - 1])
      Pad(j) == j <= n /\ s[i + j - 1] = "="
      Six(j) == Sextet(enc, s[i + j - 1])
      Bad == [ok |-> FALSE, val |-> <<>>]
  IN IF In(1) /\ In(2) /\ In(3) /\ In(4)
       THEN LET v == Six(1) * 262144 + Six(2) * 4096 + Six(3) * 64 + Six(4)
            IN [ok |-> TRUE, val |-> << v \div 65536, (v \div 256) % 256, v % 256 >>]
     ELSE IF ~final THEN Bad
     ELSE IF In(1) /\ In(2) /\ In(3) /\ (IF enc.pad THEN Pad(4) ELSE n = 3)
       THEN LET v == Six(1) * 4096 + Six(2) * 64 + Six(3)
            IN [ok |-> TRUE, val |-> << v \div 1024, (v \div 4) % 256 >>]
     ELSE IF In(1) /\ In(2) /\ (IF enc.pad THEN Pad(3) /\ Pad(4) ELSE n = 2)
       THEN [ok |-> TRUE, val |-> << (Six(1) * 64 + Six(2)) \div 16 >>]
     ELSE Bad

DecodeBytes(enc, s) ==
  LET q == [k \in 1..((Len(s) + 3) \div 4) |-> DecodeQuantum(enc, s, k)]
  IN IF \A k \in 1..Len(q) : q[k].ok
       THEN [ok |-> TRUE, val |-> Concat([k \in 1..Len(q) |-> q[k].val])]
       ELSE [ok |-> FALSE, val |-> <<>>]

DecodeString(enc, s) ==
  LET r == DecodeBytes(enc, s)
  IN [ok |-> r.ok, val |-> Str(r.val)]

(***************************************************************************)
(* unicode/utf8 and encoding/json, for structs whose fields are strings    *)
(***************************************************************************)

Between(v, lo, hi) == v >= lo /\ v <= hi
Cont(b, i) == i <= Len(b) /\ Between(b[i], 128, 191)

\* utf8.DecodeRune at b[i]: the rune's size in bytes, 0 for an invalid encoding
RuneSize(b, i) ==
  LET c == b[i]
      c2 == IF i + 1 <= Len(b) THEN b[i + 1] ELSE 0
  IN IF c < 128 THEN 1
     ELSE IF Between(c, 194, 223) THEN (IF Cont(b, i + 1) THEN 2 ELSE 0)
     ELSE IF c = 224 THEN (IF Between(c2, 160, 191) /\ Cont(b, i + 2) THEN 3 ELSE 0)
     ELSE IF c = 237 THEN (IF Between(c2, 128, 159) /\ Cont(b, i + 2) THEN 3 ELSE 0)
     ELSE IF Between(c, 225, 239) THEN (IF Cont(b, i + 1) /\ Cont(b, i + 2) THEN 3 ELSE 0)
     ELSE IF c = 240
       THEN (IF Between(c2, 144, 191) /\ Cont(b, i + 2) /\ Cont(b, i + 3) THEN 4 ELSE 0)
     ELSE IF Between(c, 241, 243)
       THEN (IF Cont(b, i + 1) /\ Cont(b, i + 2) /\ Cont(b, i + 3) THEN 4 ELSE 0)
     ELSE IF c = 244
       THEN (IF Between(c2, 128, 143) /\ Cont(b, i + 2) /\ Cont(b, i + 3) THEN 4 ELSE 0)
     ELSE 0

\* b[i] is a continuation byte of a well-formed rune that starts before it
InRune(b, i) ==
  \E d \in 1..3 : i - d >= 1 /\ b[i - d] >= 192 /\ RuneSize(b, i - d) > d

\* utf8.AppendRune for a code point below 0x10000
EncodeRune(cp) ==
  IF cp < 128 THEN << cp >>
  ELSE IF cp < 2048 THEN << 192 + (cp \div 64), 128 + (cp % 64) >>
  ELSE << 224 + (cp \div 4096), 128 + ((cp \div 64) % 64), 128 + (cp % 64) >>

\* utf8.RuneError, U+FFFD, as bytes
RuneError == Str(EncodeRune(65533))

HexDigits == << "0", "1", "2", "3", "4", "5", "6", "7", "8", "9", "a", "b", "c", "d", "e", "f" >>
IsHex(c) == Between(OrdTable[c], 48, 57) \/ Between(OrdTable[c], 97, 102) \/ Between(OrdTable[c], 65, 70)
HexVal(c) ==
  LET v == OrdTable[c]
  IN IF v <= 57 THEN v - 48 ELSE IF v >= 97 THEN v - 87 ELSE v - 55

\* the bytes < 0x80 that json.Marshal copies unescaped (htmlSafeSet)
HTMLSafe(v) == v >= 32 /\ v < 128 /\ v \notin {34, 92, 60, 62, 38}

\* encodeState.string with escapeHTML, what it writes for the byte at b[i]:
\* nothing for the later bytes of a rune, U+FFFD for a byte that starts none
EscapeAt(b, i) ==
  LET c == b[i]
      n == RuneSize(b, i)
  IN IF c < 128
       THEN (IF HTMLSafe(c) THEN << ChrTable[c] >>
             ELSE IF c = 34 \/ c = 92 THEN << "\\", ChrTable[c] >>
             ELSE IF c = 10 THEN << "\\", "n" >>
             ELSE IF c = 13 THEN << "\\", "r" >>
             ELSE IF c = 9 THEN << "\\", "t" >>
             ELSE << "\\", "u", "0", "0", HexDigits[(c \div 16) + 1], HexDigits[(c % 16) + 1] >>)
     ELSE IF InRune(b, i) THEN <<>>
     ELSE IF n = 0 THEN << "\\", "u", "f", "f", "f", "d" >>
     ELSE IF n = 3 /\ c = 226 /\ b[i + 1] = 128 /\ b[i + 2] \in {168, 169}
       THEN << "\\", "u", "2", "0", "2", HexDigits[(b[i + 2] % 16) + 1] >>
     ELSE Str(SubSeq(b, i, i + n - 1))

EscapeFrom(b) == Concat([i \in 1..Len(b) |-> EscapeAt(b, i)])

\* a Go string as a JSON string literal
MarshalString(s) == << "\"" >> \o EscapeFrom(Bytes(s)) \o << "\"" >>

\* json.Marshal of a struct: names its fields' JSON names in declaration
\* order, v the field values
RECURSIVE MarshalFields(_, _, _)
MarshalFields(names, v, i) ==
  IF i > Len(names) THEN <<>>
  ELSE (IF i > 1 THEN << "," >> ELSE <<>>)
       \o MarshalString(names[i]) \o << ":" >> \o MarshalString(v[names[i]])
       \o MarshalFields(names, v, i + 1)

Marshal(names, v) == << "{" >> \o MarshalFields(names, v, 1) \o << "}" >>

IsSpace(c) == c \in {" ", "x9", "x10", "x13"}

RECURSIVE SkipSpace(_, _)
SkipSpace(s, i) == IF i <= Len(s) /\ IsSpace(s[i]) THEN SkipSpace(s, i + 1) ELSE i

\* s[i] follows an odd run of backslashes: it is the escaped byte of "\x"
Escaped(s, i) ==
  LET run == CHOOSE k \in 0..(i - 1) :
               /\ \A j \in (i - k)..(i - 1) : s[j] = "\\"
               /\ (i - k - 1 = 0 \/ s[i - k - 1] # "\\")
  IN run % 2 = 1

\* s[i] is one of the four hex digits of the \u escape before it
InUnicodeEscape(s, i) ==
  \E d \in 2..5 : i - d >= 1 /\ s[i - d] = "\\" /\ ~Escaped(s, i - d) /\ s[i - d + 1] = "u"

\* what the byte s[i] of a JSON string literal unquotes to: [ok, val]
UnquoteAt(s, i, b) ==
  LET c == s[i]
      v == b[i]
      Ok(bytes) == [ok |-> TRUE, val |-> bytes]
      Bad == [ok |-> FALSE, val |-> <<>>]
  IN IF Escaped(s, i)
       THEN IF c \in {"\"", "\\", "/"} THEN Ok(<< c >>)
            ELSE IF c = "b" THEN Ok(<< "x8" >>)
            ELSE IF c = "f" THEN Ok(<< "x12" >>)
            ELSE IF c = "n" THEN Ok(<< "x10" >>)
            ELSE IF c = "r" THEN Ok(<< "x13" >>)
            ELSE IF c = "t" THEN Ok(<< "x9" >>)
            ELSE IF c = "u" /\ i + 4 <= Len(s) /\ \A k \in 1..4 : IsHex(s[i + k])
              THEN LET cp == HexVal(s[i + 1]) * 4096 + HexVal(s[i + 2]) * 256
                             + HexVal(s[i + 3]) * 16 + HexVal(s[i + 4])
                   IN IF Between(cp, 55296, 57343) THEN Ok(RuneError)
                      ELSE Ok(Str(EncodeRune(cp)))
            ELSE Bad
     ELSE IF c = "\\" \/ InUnicodeEscape(s, i) THEN Ok(<<>>)
     ELSE IF v < 32 THEN Bad
     ELSE IF v < 128 THEN Ok(<< c >>)
     ELSE IF InRune(b, i) THEN Ok(<<>>)
     ELSE IF RuneSize(b, i) = 0 THEN Ok(RuneError)
     ELSE Ok(SubSeq(s, i, i + RuneSize(b, i) - 1))

\* a JSON string literal whose opening quote is before s[i]: [ok, next, val],
\* unquoted as json.Unmarshal does (escapes decoded, invalid UTF-8 and
\* surrogates replaced by U+FFFD, a raw control byte is a syntax error;
\* surrogate pairs are not among the inputs of this model)
Unquote(s, i) ==
  LET Closing(j) == s[j] = "\"" /\ ~Escaped(s, j)
      b == Bytes(s)
  IN IF \E j \in i..Len(s) : Closing(j)
       THEN LET e == CHOOSE j \in i..Len(s) : Closing(j) /\ \A k \in i..(j - 1) : ~Closing(k)
                body == SubSeq(s, 1, e - 1)
                bb == SubSeq(b, 1, e - 1)
                p == [k \in i..(e - 1) |-> UnquoteAt(body, k, bb)]
            IN IF \A k \in i..(e - 1) : p[k].ok
                 THEN [ok |-> TRUE, next |-> e + 1,
                       val |-> Concat([k \in 1..(e - i) |-> p[i + k - 1].val])]
                 ELSE [ok |-> FALSE, next |-> i, val |-> <<>>]
       ELSE [ok |-> FALSE, next |-> i, val |-> <<>>]

\* the members of a JSON object after its "{": [ok, next, val] with val the
\* sequence of <<key, value>> in input order.  Only string values are parsed:
\* a member of another type is outside the inputs of this model and is
\* reported as an error (json.Unmarshal reports one too when the member's key
\* names a string field).
RECURSIVE Members(_, _)
Members(s, i) ==
  LET Bad == [ok |-> FALSE, next |-> i, val |-> <<>>]
      k0 == SkipSpace(s, i)
  IN IF k0 > Len(s) \/ s[k0] # "\"" THEN Bad
     ELSE LET key == Unquote(s, k0 + 1)
              c0 == SkipSpace(s, key.next)
          IN IF ~key.ok \/ c0 > Len(s) \/ s[c0] # ":" THEN Bad
             ELSE LET v0 == SkipSpace(s, c0 + 1)
                  IN IF v0 > Len(s) \/ s[v0] # "\"" THEN Bad
                     ELSE LET val == Unquote(s, v0 + 1)
                              e0 == SkipSpace(s, val.next)
                          IN IF ~val.ok \/ e0 > Len(s) THEN Bad
                             ELSE IF s[e0] = "}"
                               THEN [ok |-> TRUE, next |-> e0 + 1,
                                     val |-> << << key.val, val.val >> >>]
                             ELSE IF s[e0] = ","
                               THEN LET r == Members(s, e0 + 1)
                                    IN IF r.ok
                                         THEN [ok |-> TRUE, next |-> r.next,
                                               val |-> << << key.val, val.val >> >> \o r.val]
                                         ELSE Bad
                             ELSE Bad

\* the top-level JSON value of s: [ok, val] with val the members of the
\* object, none for null
ParseObject(s) ==
  LET Bad == [ok |-> FALSE, val |-> <<>>]
      i == SkipSpace(s, 1)
  IN IF i > Len(s) THEN Bad
     ELSE IF i + 3 <= Len(s) /\ SubSeq(s, i, i + 3) = << "n", "u", "l", "l" >>
       THEN [ok |-> SkipSpace(s, i + 4) > Len(s), val |-> <<>>]
     ELSE IF s[i] # "{" THEN Bad
     ELSE LET j == SkipSpace(s, i + 1)
          IN IF j <= Len(s) /\ s[j] = "}"
               THEN [ok |-> SkipSpace(s, j + 1) > Len(s), val |-> <<>>]
               ELSE LET m == Members(s, i + 1)
                    IN IF m.ok /\ SkipSpace(s, m.next) > Len(s)
                         THEN [ok |-> TRUE, val |-> m.val]
                         ELSE Bad

\* bytes.EqualFold on ASCII letters: how a member's key finds its field
Lower(s) == [i \in 1..Len(s) |->
               IF Between(OrdTable[s[i]], 65, 90) THEN ChrTable[OrdTable[s[i]] + 32] ELSE s[i]]
FieldOf(names, key) ==
  IF \E i \in 1..Len(names) : names[i] = key THEN key
  ELSE IF \E i \in 1..Len(names) : Lower(names[i]) = Lower(key)
    THEN names[CHOOSE i \in 1..Len(names) : Lower(names[i]) = Lower(key)]
  ELSE <<>>

RECURSIVE Assign(_, _, _, _)
Assign(names, members, i, v) ==
  IF i > Len(members) THEN v
  ELSE LET f == FieldOf(names, members[i][1])
       IN Assign(names, members, i + 1,
                 IF f = <<>> THEN v ELSE [v EXCEPT ![f] = members[i][2]])

\* json.Unmarshal(s, &T{}) for a struct T of string fields: [ok, val]
Unmarshal(names, s) ==
  LET zero == [f \in {names[i] : i \in 1..Len(names)} |-> <<>>]
      p == ParseObject(s)
  IN IF p.ok THEN [ok |-> TRUE, val |-> Assign(names, p.val, 1, zero)]
     ELSE [ok |-> FALSE, val |-> zero]

(***************************************************************************)
(* net/url                                                                 *)
(***************************************************************************)

\* a < b for Go strings (byte-wise lexicographic)
StrLess(a, b) ==
  \E i \in 1..Len(b) :
    /\ \A j \in 1..(i - 1) : j <= Len(a) /\ a[j] = b[j]
    /\ (i > Len(a) \/ (Len(a) >= i - 1 /\ OrdTable[a[i]] < OrdTable[b[i]]))

HasPrefix(s, p) == Len(s) >= Len(p) /\ SubSeq(s, 1, Len(p)) = p
Contains(s, c) == \E i \in 1..Len(s) : s[i] = c

IsAlpha(v) == Between(v, 65, 90) \/ Between(v, 97, 122)
IsDigit(v) == Between(v, 48, 57)
\* RFC 3986 unreserved: what every escaping mode of net/url leaves alone
Unreserved(v) == IsAlpha(v) \/ IsDigit(v) \/ v \in {45, 95, 46, 126}

UpperHex == << "0", "1", "2", "3", "4", "5", "6", "7", "8", "9", "A", "B", "C", "D", "E", "F" >>
PercentByte(v) == << "%", UpperHex[(v \div 16) + 1], UpperHex[(v % 16) + 1] >>

\* url.QueryEscape
QueryEscape(s) ==
  Concat([i \in 1..Len(s) |->
            LET v == OrdTable[s[i]]
            IN IF Unreserved(v) THEN << s[i] >>
               ELSE IF v = 32 THEN << "+" >>
               ELSE PercentByte(v)])

\* url.unescape: [ok, val]; plus says whether "+" means a space (the query mode)
Unescape(s, plus) ==
  LET Hex2(i) == i + 2 <= Len(s) /\ IsHex(s[i + 1]) /\ IsHex(s[i + 2])
      InEscape(i) == (i >= 2 /\ s[i - 1] = "%") \/ (i >= 3 /\ s[i - 2] = "%")
  IN IF \A i \in 1..Len(s) : s[i] = "%" => Hex2(i)
       THEN [ok |-> TRUE,
             val |-> Concat([i \in 1..Len(s) |->
                       IF s[i] = "%" THEN << ChrTable[HexVal(s[i + 1]) * 16 + HexVal(s[i + 2])] >>
                       ELSE IF InEscape(i) THEN <<>>
                       ELSE IF plus /\ s[i] = "+" THEN << " " >>
                       ELSE << s[i] >>])]
       ELSE [ok |-> FALSE, val |-> <<>>]

\* url.ParseQuery(rawquery) as Request.URL.Query() and URL.Query() use it: the
\* <<key, value>> pairs in input order, a malformed pair silently dropped
RECURSIVE ParsePairs(_)
ParsePairs(pairs) ==
  IF Len(pairs) = 0 THEN <<>>
  ELSE LET kv == Head(pairs)
           i == IndexFrom(kv, "=", 1)
           k == Unescape(SubSeq(kv, 1, i - 1), TRUE)
           v == Unescape(SubSeq(kv, i + 1, Len(kv)), TRUE)
       IN (IF kv = <<>> \/ Contains(kv, ";") \/ ~k.ok \/ ~v.ok THEN <<>>
           ELSE << << k.val, v.val >> >>)
          \o ParsePairs(Tail(pairs))

ParseQuery(rawquery) == ParsePairs(Split(rawquery, "&"))

\* Values.Get: the first value of key, "" when there is none
ValuesGet(values, key) ==
  IF \E i \in 1..Len(values) : values[i][1] = key
    THEN values[CHOOSE i \in 1..Len(values) :
                  values[i][1] = key /\ \A j \in 1..(i - 1) : values[j][1] # key][2]
    ELSE <<>>

\* Values.Add
ValuesAdd(values, key, value) == Append(values, << key, value >>)

\* the pairs stably sorted by key, as Values.Encode orders them
RECURSIVE SortByKey(_)
SortByKey(values) ==
  IF Len(values) = 0 THEN <<>>
  ELSE LET m == CHOOSE i \in 1..Len(values) :
                  /\ \A j \in 1..Len(values) : ~StrLess(values[j][1], values[i][1])
                  /\ \A j \in 1..(i - 1) : StrLess(values[i][1], values[j][1])
       IN << values[m] >>
          \o SortByKey(SubSeq(values, 1, m - 1) \o SubSeq(values, m + 1, Len(values)))

RECURSIVE JoinPairs(_)
JoinPairs(values) ==
  IF Len(values) = 0 THEN <<>>
  ELSE QueryEscape(values[1][1]) \o << "=" >> \o QueryEscape(values[1][2])
       \o (IF Len(values) > 1 THEN << "&" >> ELSE <<>>) \o JoinPairs(Tail(values))

\* Values.Encode
ValuesEncode(values) == JoinPairs(SortByKey(values))

\* url.getScheme: [ok, scheme, rest]
RECURSIVE GetScheme(_, _)
GetScheme(raw, i) ==
  IF i > Len(raw) THEN [ok |-> TRUE, scheme |-> <<>>, rest |-> raw]
  ELSE LET v == OrdTable[raw[i]]
       IN IF IsAlpha(v) THEN GetScheme(raw, i + 1)
          ELSE IF IsDigit(v) \/ v \in {43, 45, 46}
            THEN (IF i = 1 THEN [ok |-> TRUE, scheme |-> <<>>, rest |-> raw]
                  ELSE GetScheme(raw, i + 1))
          ELSE IF v = 58
            THEN (IF i = 1 THEN [ok |-> FALSE, scheme |-> <<>>, rest |-> <<>>]
                  ELSE [ok |-> TRUE, scheme |-> Lower(SubSeq(raw, 1, i - 1)),
                        rest |-> SubSeq(raw, i + 1, Len(raw))])
          ELSE [ok |-> TRUE, scheme |-> <<>>, rest |-> raw]

\* the bytes a path keeps unescaped (shouldEscape, encodePath) and the ones
\* validEncoded accepts on top of them
PathSafe(v) == Unreserved(v) \/ v \in {36, 38, 43, 44, 47, 58, 59, 61, 64}
PathValid(v) == PathSafe(v) \/ v \in {33, 39, 40, 41, 42, 91, 93, 37}

EscapePath(s) ==
  Concat([i \in 1..Len(s) |->
            IF PathSafe(OrdTable[s[i]]) THEN << s[i] >> ELSE PercentByte(OrdTable[s[i]])])

\* URL.EscapedPath of a path parsed from rawpath
EscapedPath(rawpath) ==
  IF \A i \in 1..Len(rawpath) : PathValid(OrdTable[rawpath[i]]) THEN rawpath
  ELSE EscapePath(Unescape(rawpath, FALSE).val)

\* url.Parse(raw): [ok, scheme, opaque, authority, path, rawquery, fragment].
\* The authority ("//host:port") is kept as written: user info, ports and
\* bracketed hosts are not among the URLs of this model.
ParseURL(raw) ==
  LET Bad == [ok |-> FALSE, scheme |-> <<>>, opaque |-> <<>>, authority |-> <<>>,
              path |-> <<>>, rawquery |-> <<>>, fragment |-> <<>>]
      h == IndexFrom(raw, "#", 1)
      frag == SubSeq(raw, h + 1, Len(raw))
      nofrag == SubSeq(raw, 1, h - 1)
      sch == GetScheme(nofrag, 1)
      q == IndexFrom(sch.rest, "?", 1)
      rest == SubSeq(sch.rest, 1, q - 1)
      rawquery == SubSeq(sch.rest, q + 1, Len(sch.rest))
      slash == IndexFrom(rest, "/", 1)
      hasAuth == HasPrefix(rest, << "/", "/" >>) /\ ~HasPrefix(rest, << "/", "/", "/" >>)
      aend == IndexFrom(rest, "/", 3)
      authority == IF hasAuth THEN SubSeq(rest, 3, aend - 1) ELSE <<>>
      path == IF hasAuth THEN SubSeq(rest, aend, Len(rest)) ELSE rest
  IN IF \E i \in 1..Len(raw) : OrdTable[raw[i]] < 32 \/ OrdTable[raw[i]] = 127 THEN Bad
     ELSE IF ~sch.ok THEN Bad
     ELSE IF ~HasPrefix(rest, << "/" >>) /\ sch.scheme # <<>>
       THEN [Bad EXCEPT !.ok = Unescape(frag, FALSE).ok, !.scheme = sch.scheme,
                        !.opaque = rest, !.rawquery = rawquery, !.fragment = frag]
     ELSE IF ~HasPrefix(rest, << "/" >>) /\ Contains(SubSeq(rest, 1, slash - 1), ":") THEN Bad
     ELSE IF ~Unescape(authority, FALSE).ok \/ ~Unescape(path, FALSE).ok
             \/ ~Unescape(frag, FALSE).ok THEN Bad
     ELSE [ok |-> TRUE, scheme |-> sch.scheme, opaque |-> <<>>, authority |-> authority,
           path |-> path, rawquery |-> rawquery, fragment |-> frag]

\* URL.String()
URLString(u) ==
  (IF u.scheme # <<>> THEN u.scheme \o << ":" >> ELSE <<>>)
  \o (IF u.opaque # <<>> THEN u.opaque
      ELSE (IF u.authority # <<>> THEN << "/", "/" >> \o u.authority ELSE <<>>)
           \o EscapedPath(u.path))
  \o (IF u.rawquery # <<>> THEN << "?" >> \o u.rawquery ELSE <<>>)
  \o (IF u.fragment # <<>> THEN << "#" >> \o EscapePath(Unescape(u.fragment, FALSE).val) ELSE <<>>)

(***************************************************************************)
(* net/http: cookies, redirects, errors, routes                            *)
(***************************************************************************)

\* httpguts.IsTokenRune, for the bytes of a cookie name
IsTokenByte(v) ==
  IsAlpha(v) \/ IsDigit(v) \/ v \in {33, 35, 36, 37, 38, 39, 42, 43, 45, 46, 94, 95, 96, 124, 126}

\* http.isCookieNameValid
CookieNameValid(name) ==
  name # <<>> /\ \A i \in 1..Len(name) : IsTokenByte(OrdTable[name[i]])

\* path.Clean of an absolute path, as far as this model's paths need it:
\* repeated slashes collapse ("." and ".." elements are not among them)
CleanPath(s) ==
  Concat([i \in 1..Len(s) |->
            IF s[i] = "/" /\ i < Len(s) /\ s[i + 1] = "/" THEN <<>> ELSE << s[i] >>])

\* http.hexEscapeNonASCII
HexEscapeNonASCII(s) ==
  Concat([i \in 1..Len(s) |->
            IF OrdTable[s[i]] >= 128 THEN PercentByte(OrdTable[s[i]]) ELSE << s[i] >>])

\* the Location header http.Redirect writes for url on a request to a
\* top-level path (whose directory is "/")
RedirectLocation(url) ==
  LET u == ParseURL(url)
      abs == IF url = <<>> \/ url[1] # "/" THEN << "/" >> \o url ELSE url
      q == IndexFrom(abs, "?", 1)
      p == SubSeq(abs, 1, q - 1)
      cleaned == CleanPath(p)
      trailing == IF p[Len(p)] = "/" /\ cleaned[Len(cleaned)] # "/" THEN << "/" >> ELSE <<>>
  IN HexEscapeNonASCII(
       IF u.ok /\ u.scheme = <<>> /\ u.authority = <<>>
         THEN cleaned \o trailing \o SubSeq(abs, q, Len(abs))
         ELSE url)

NoCalls == <<>>

\* what a handler leaves on the ResponseWriter, with the calls it made to its
\* collaborators (calls) while doing so
Response(status, body, location, cookies, calls) ==
  [status |-> status, body |-> body, location |-> location, cookies |-> cookies,
   calls |-> calls, panicked |-> FALSE]

\* a text body: the format and the values put into it
Text(fmt, args) == [fmt |-> fmt, args |-> args]

\* http.Error(w, msg, code)
Error(msg, code, calls) == Response(code, msg, <<>>, {}, calls)

\* http.Redirect(w, r, url, code), after the cookies already set on w
Redirect(url, code, cookies, calls) ==
  Response(code, Text("<a href=\"%s\">Found</a>", << RedirectLocation(url) >>),
           RedirectLocation(url), cookies, calls)

\* a handler that panicked: net/http recovers, logs and drops the connection
Panic(calls) ==
  [status |-> 0, body |-> Text("", <<>>), location |-> <<>>, cookies |-> {},
   calls |-> calls, panicked |-> TRUE]

\* http.SetCookie(w, c): a cookie whose name is not a token is silently dropped
SetCookie(c) == IF CookieNameValid(c.name) THEN {c} ELSE {}

\* Request.Cookie that returns a cookie of the request whatever its name: C14
\* does not hold of it
RequestCookieOfAnyName(r, name) == r.cookies

\* Request.Cookie(name) on the cookies the request carries: the set of the
\* cookies found (empty: http.ErrNoCookie)
RequestCookie(r, name) == {c \in r.cookies : c.name = name}

\* a call to a collaborator and what it returned (ret, whose err is the error)
Call(op, args, ret) == [op |-> op, args |-> args, err |-> ret.err, ret |-> ret]

\* the routes of AddRoutes: the handler a GET of path reaches, "" for none
Route(path) ==
  IF path = << "/", "e", "x", "p", "o", "r", "t" >> THEN "handleServiceExport"
  ELSE IF path = << "/", "r", "e", "s", "o", "u", "r", "c", "e", "s" >> THEN "handleResources"
  ELSE IF path = << "/", "b", "i", "n", "d" >> THEN "handleBind"
  ELSE IF path = << "/", "a", "u", "t", "h", "o", "r", "i", "z", "e" >> THEN "handleAuthorize"
  ELSE IF path = << "/", "c", "a", "l", "l", "b", "a", "c", "k" >> THEN "handleCallback"
  ELSE ""

(***************************************************************************)
(* The handler's collaborators                                             *)
(***************************************************************************)

\* resources.AuthCode: the JSON names of its fields, in declaration order
AuthCodeRedirectURL == << "R", "e", "d", "i", "r", "e", "c", "t", "U", "R", "L" >>
AuthCodeSessionID == << "S", "e", "s", "s", "i", "o", "n", "I", "D" >>
AuthCodeFields == << AuthCodeRedirectURL, AuthCodeSessionID >>

AuthCode(redirectURL, sessionID) ==
  (AuthCodeRedirectURL :> redirectURL) @@ (AuthCodeSessionID :> sessionID)

\* the claims handleBind reads from the ID token's payload
ClaimSub == << "s", "u", "b" >>
ClaimIss == << "i", "s", "s" >>
ClaimFields == << ClaimSub, ClaimIss >>

\* resources.AuthResponse, as handleBind fills it
RespSessionID == << "S", "e", "s", "s", "i", "o", "n", "I", "D" >>
RespID == << "I", "D" >>
RespKubeconfig == << "K", "u", "b", "e", "c", "o", "n", "f", "i", "g" >>
RespGroup == << "G", "r", "o", "u", "p" >>
RespResource == << "R", "e", "s", "o", "u", "r", "c", "e" >>
RespExport == << "E", "x", "p", "o", "r", "t" >>
AuthResponseFields ==
  << RespSessionID, RespID, RespKubeconfig, RespGroup, RespResource, RespExport >>

\* the identity provider's authorization endpoint
AuthEndpoint == << "h", "t", "t", "p", "s", ":", "/", "/", "i", "d", "p", "/", "a", "u", "t", "h" >>

Scopes == << << "o", "p", "e", "n", "i", "d" >>, << "p", "r", "o", "f", "i", "l", "e" >>, << "e", "m", "a", "i", "l" >>, << "o", "f", "f", "l", "i", "n", "e", "_", "a", "c", "c", "e", "s", "s" >> >>

RECURSIVE Join(_, _)
Join(ss, sep) ==
  IF Len(ss) = 0 THEN <<>>
  ELSE IF Len(ss) = 1 THEN ss[1]
  ELSE ss[1] \o sep \o Join(Tail(ss), sep)

\* oauth2.Config.AuthCodeURL(state) of h.oidc.OIDCProviderConfig(scopes)
AuthCodeURL(scopes, state) ==
  AuthEndpoint \o << "?" >>
  \o ValuesEncode(<< << << "r", "e", "s", "p", "o", "n", "s", "e", "_", "t", "y", "p", "e" >>, << "c", "o", "d", "e" >> >>,
                     << << "s", "c", "o", "p", "e" >>, Join(scopes, << " " >>) >>,
                     << << "s", "t", "a", "t", "e" >>, state >> >>)

\* cookie.SessionState
SessionState(createdAt, expiresOn, accessToken, idToken, refreshToken, redirectURL, sessionID) ==
  [CreatedAt |-> createdAt, ExpiresOn |-> expiresOn, AccessToken |-> accessToken,
   IDToken |-> idToken, RefreshToken |-> refreshToken, RedirectURL |-> redirectURL,
   SessionID |-> sessionID]

ZeroSessionState == SessionState("", "", <<>>, <<>>, <<>>, <<>>, <<>>)

\* cookie.SessionState.Encode and cookie.Decode: the session codec, whose
\* value is opaque to the handler.  A value the codec did not write does not
\* decode.
SessionEncode(st) == [ok |-> TRUE, val |-> [codec |-> "session", state |-> st]]
SessionDecode(v) ==
  IF v.codec = "session" THEN [ok |-> TRUE, val |-> v.state]
  ELSE [ok |-> FALSE, val |-> ZeroSessionState]

\* a cookie value that is not the codec's
GarbageValue == [codec |-> "garbage", state |-> ZeroSessionState]

\* cookie.MakeCookie(r, name, value, ttl)
MakeCookie(name, value, ttl) == [name |-> name, value |-> value, maxAge |-> ttl]

(***************************************************************************)
(* The handlers.  A request r is [path, rawquery, form, cookies]; r.form is *)
(* Request.Form, which net/http fills only when ParseForm is called.       *)
(***************************************************************************)

KubeBindPrefix == << "k", "u", "b", "e", "-", "b", "i", "n", "d", "-" >>

\* time.Duration(1)*time.Hour, in seconds
SessionTTL == 3600

Query(r) == ParseQuery(r.rawquery)

InternalError == Text("internal error", <<>>)

\* handleAuthorize with the check of line 250 weakened to reject only when
\* both u and s are empty: C6 does not hold of it
handleAuthorizeRejectsBothEmpty(r) ==
  LET code == AuthCode(ValuesGet(Query(r), << "u" >>), ValuesGet(Query(r), << "s" >>))
  IN IF code[AuthCodeRedirectURL] = <<>> /\ code[AuthCodeSessionID] = <<>>
       THEN Error(Text("missing redirect_url or session_id", <<>>), 400, NoCalls)
       ELSE LET dataCode == Marshal(AuthCodeFields, code)
                encoded == EncodeToString(StdEncoding, dataCode)
                authURL == AuthCodeURL(Scopes, encoded)
            IN Redirect(authURL, 302, {}, NoCalls)

\* handler.handleAuthorize
handleAuthorize(r) ==
  LET code == AuthCode(ValuesGet(Query(r), << "u" >>), ValuesGet(Query(r), << "s" >>))
  IN IF code[AuthCodeRedirectURL] = <<>> \/ code[AuthCodeSessionID] = <<>>
       THEN Error(Text("missing redirect_url or session_id", <<>>), 400, NoCalls)
       ELSE LET dataCode == Marshal(AuthCodeFields, code)
                encoded == EncodeToString(StdEncoding, dataCode)
                authURL == AuthCodeURL(Scopes, encoded)
            IN Redirect(authURL, 302, {}, NoCalls)

\* parseJWT: [ok, val]
parseJWT(p) ==
  LET parts == Split(p, ".")
  IN IF Len(parts) < 2 THEN [ok |-> FALSE, val |-> <<>>]
     ELSE DecodeString(RawURLEncoding, parts[2])

\* handleCallback without the check of lines 293-297, so that an empty code
\* goes on to the state and the exchange: C11 does not hold of it
handleCallbackAcceptsEmptyCode(r, token, now) ==
  LET errMsg == ValuesGet(r.form, << "e", "r", "r", "o", "r" >>)
      formCode == ValuesGet(r.form, << "c", "o", "d", "e" >>)
      code == IF formCode = <<>> THEN ValuesGet(Query(r), << "c", "o", "d", "e" >>) ELSE formCode
      formState == ValuesGet(r.form, << "s", "t", "a", "t", "e" >>)
      state == IF formState = <<>> THEN ValuesGet(Query(r), << "s", "t", "a", "t", "e" >>) ELSE formState
      decode == DecodeString(StdEncoding, state)
      authCode == Unmarshal(AuthCodeFields, decode.val)
      exchange == << Call("Exchange", << code >>, token) >>
      jwt == parseJWT(token.idToken)
      sessionCookie ==
        SessionState(now, token.Expiry, token.AccessToken, jwt.val, token.RefreshToken,
                     authCode.val[AuthCodeRedirectURL], authCode.val[AuthCodeSessionID])
      b == SessionEncode(sessionCookie)
  IN IF errMsg # <<>>
       THEN Error(Text("%s: %s", << errMsg, ValuesGet(r.form, << "e", "r", "r", "o", "r", "_", "d", "e", "s", "c", "r", "i", "p", "t", "i", "o", "n" >>) >>),
                  400, NoCalls)
     ELSE IF ~decode.ok
       THEN Error(Text("illegal base64 data", <<>>), 400, NoCalls)
     ELSE IF ~authCode.ok
       THEN Error(Text("invalid character", <<>>), 400, NoCalls)
     ELSE IF token.err # <<>> THEN Error(InternalError, 500, exchange)
     ELSE IF ~token.hasIDToken THEN Error(InternalError, 500, exchange)
     ELSE IF ~jwt.ok THEN Error(InternalError, 500, exchange)
     ELSE IF ~b.ok THEN Error(InternalError, 500, exchange)
     ELSE Redirect(<< "/", "r", "e", "s", "o", "u", "r", "c", "e", "s", "?", "s", "=" >> \o authCode.val[AuthCodeSessionID], 302,
                   SetCookie(MakeCookie(KubeBindPrefix \o authCode.val[AuthCodeSessionID],
                                        b.val, SessionTTL)),
                   exchange)

\* handleCallback without the checks of lines 326-342, so that the cookie is
\* written whatever the exchange returned as id_token: C12 does not hold of it
handleCallbackIgnoresIDToken(r, token, now) ==
  LET errMsg == ValuesGet(r.form, << "e", "r", "r", "o", "r" >>)
      formCode == ValuesGet(r.form, << "c", "o", "d", "e" >>)
      code == IF formCode = <<>> THEN ValuesGet(Query(r), << "c", "o", "d", "e" >>) ELSE formCode
      formState == ValuesGet(r.form, << "s", "t", "a", "t", "e" >>)
      state == IF formState = <<>> THEN ValuesGet(Query(r), << "s", "t", "a", "t", "e" >>) ELSE formState
      decode == DecodeString(StdEncoding, state)
      authCode == Unmarshal(AuthCodeFields, decode.val)
      exchange == << Call("Exchange", << code >>, token) >>
      jwt == parseJWT(token.idToken)
      sessionCookie ==
        SessionState(now, token.Expiry, token.AccessToken, jwt.val, token.RefreshToken,
                     authCode.val[AuthCodeRedirectURL], authCode.val[AuthCodeSessionID])
      b == SessionEncode(sessionCookie)
  IN IF errMsg # <<>>
       THEN Error(Text("%s: %s", << errMsg, ValuesGet(r.form, << "e", "r", "r", "o", "r", "_", "d", "e", "s", "c", "r", "i", "p", "t", "i", "o", "n" >>) >>),
                  400, NoCalls)
     ELSE IF code = <<>>
       THEN Error(Text("no code in request: %q", << ValuesEncode(r.form) >>), 400, NoCalls)
     ELSE IF ~decode.ok
       THEN Error(Text("illegal base64 data", <<>>), 400, NoCalls)
     ELSE IF ~authCode.ok
       THEN Error(Text("invalid character", <<>>), 400, NoCalls)
     ELSE IF token.err # <<>> THEN Error(InternalError, 500, exchange)
     ELSE IF ~b.ok THEN Error(InternalError, 500, exchange)
     ELSE Redirect(<< "/", "r", "e", "s", "o", "u", "r", "c", "e", "s", "?", "s", "=" >> \o authCode.val[AuthCodeSessionID], 302,
                   SetCookie(MakeCookie(KubeBindPrefix \o authCode.val[AuthCodeSessionID],
                                        b.val, SessionTTL)),
                   exchange)

\* handler.handleCallback; token is what h.oidc's Exchange returns for the
\* request's code: [err, AccessToken, RefreshToken, Expiry, hasIDToken,
\* idToken], now is time.Now()
handleCallback(r, token, now) ==
  LET errMsg == ValuesGet(r.form, << "e", "r", "r", "o", "r" >>)
      formCode == ValuesGet(r.form, << "c", "o", "d", "e" >>)
      code == IF formCode = <<>> THEN ValuesGet(Query(r), << "c", "o", "d", "e" >>) ELSE formCode
      formState == ValuesGet(r.form, << "s", "t", "a", "t", "e" >>)
      state == IF formState = <<>> THEN ValuesGet(Query(r), << "s", "t", "a", "t", "e" >>) ELSE formState
      decode == DecodeString(StdEncoding, state)
      authCode == Unmarshal(AuthCodeFields, decode.val)
      exchange == << Call("Exchange", << code >>, token) >>
      jwt == parseJWT(token.idToken)
      sessionCookie ==
        SessionState(now, token.Expiry, token.AccessToken, jwt.val, token.RefreshToken,
                     authCode.val[AuthCodeRedirectURL], authCode.val[AuthCodeSessionID])
      b == SessionEncode(sessionCookie)
  IN IF errMsg # <<>>
       THEN Error(Text("%s: %s", << errMsg, ValuesGet(r.form, << "e", "r", "r", "o", "r", "_", "d", "e", "s", "c", "r", "i", "p", "t", "i", "o", "n" >>) >>),
                  400, NoCalls)
     ELSE IF code = <<>>
       THEN Error(Text("no code in request: %q", << ValuesEncode(r.form) >>), 400, NoCalls)
     ELSE IF ~decode.ok
       THEN Error(Text("illegal base64 data", <<>>), 400, NoCalls)
     ELSE IF ~authCode.ok
       THEN Error(Text("invalid character", <<>>), 400, NoCalls)
     ELSE IF token.err # <<>> THEN Error(InternalError, 500, exchange)
     ELSE IF ~token.hasIDToken THEN Error(InternalError, 500, exchange)
     ELSE IF ~jwt.ok THEN Error(InternalError, 500, exchange)
     ELSE IF ~b.ok THEN Error(InternalError, 500, exchange)
     ELSE Redirect(<< "/", "r", "e", "s", "o", "u", "r", "c", "e", "s", "?", "s", "=" >> \o authCode.val[AuthCodeSessionID], 302,
                   SetCookie(MakeCookie(KubeBindPrefix \o authCode.val[AuthCodeSessionID],
                                        b.val, SessionTTL)),
                   exchange)

\* sort.SliceStable(crds, by Name): insertion sort, which is stable
RECURSIVE InsertByName(_, _)
InsertByName(sorted, c) ==
  IF Len(sorted) = 0 THEN << c >>
  ELSE IF StrLess(c.Name, sorted[1].Name) THEN << c >> \o sorted
  ELSE << sorted[1] >> \o InsertByName(Tail(sorted), c)

\* the lister's order left as it is: C17 does not hold of it
KeepListerOrder(crds) == crds

RECURSIVE SortStableByName(_)
SortStableByName(crds) ==
  IF Len(crds) = 0 THEN <<>>
  ELSE InsertByName(SortStableByName(SubSeq(crds, 1, Len(crds) - 1)), crds[Len(crds)])

RECURSIVE Names(_)
Names(crds) == IF Len(crds) = 0 THEN <<>> ELSE << crds[1].Name >> \o Names(Tail(crds))

\* handleResources answering a lister failure with the error's text, as
\* http.Error(w, err.Error(), ...) would: C10 does not hold of it
handleResourcesEchoesError(r, auto, listed) ==
  LET parts == SplitN2(auto, ".")
      list == << Call("List", <<>>, listed) >>
      crds == SortStableByName(listed.crds)
  IN IF auto # <<>>
       THEN IF Len(parts) < 2 THEN Panic(NoCalls)
            ELSE Redirect(<< "/", "r", "e", "s", "o", "u", "r", "c", "e", "s", "/" >> \o parts[1] \o << "/" >> \o parts[2], 302, {}, NoCalls)
     ELSE IF listed.err # <<>> THEN Error(Text("%s", << listed.err >>), 500, list)
     ELSE Response(200, Text("resources.gohtml", << ValuesGet(Query(r), << "s" >>) >> \o Names(crds)),
                   <<>>, {}, list)

\* handler.handleResources; auto is h.testingAutoSelect, listed what
\* h.apiextensionsLister.List returns: [err, crds]
handleResources(r, auto, listed) ==
  LET parts == SplitN2(auto, ".")
      list == << Call("List", <<>>, listed) >>
      crds == SortStableByName(listed.crds)
  IN IF auto # <<>>
       THEN IF Len(parts) < 2 THEN Panic(NoCalls)
            ELSE Redirect(<< "/", "r", "e", "s", "o", "u", "r", "c", "e", "s", "/" >> \o parts[1] \o << "/" >> \o parts[2], 302, {}, NoCalls)
     ELSE IF listed.err # <<>> THEN Error(InternalError, 500, list)
     ELSE Response(200, Text("resources.gohtml", << ValuesGet(Query(r), << "s" >>) >> \o Names(crds)),
                   <<>>, {}, list)

\* handleBind calling the minter before it looks at the error of parsing the
\* claims (line 432): C13 does not hold of it
handleBindMintsBeforeClaims(r, minted) ==
  LET ck == RequestCookie(r, KubeBindPrefix \o ValuesGet(Query(r), << "s" >>))
      state == SessionDecode((CHOOSE c \in ck : TRUE).value)
      idToken == Unmarshal(ClaimFields, state.val.IDToken)
      group == ValuesGet(Query(r), << "g", "r", "o", "u", "p" >>)
      resource == ValuesGet(Query(r), << "r", "e", "s", "o", "u", "r", "c", "e" >>)
      mint == << Call("HandleResources", << idToken.val[ClaimSub], resource, group >>,
                      minted) >>
      authResponse ==
        (RespSessionID :> state.val.SessionID)
        @@ (RespID :> idToken.val[ClaimIss] \o << "/" >> \o idToken.val[ClaimSub])
        @@ (RespKubeconfig :> EncodeToString(StdEncoding, minted.kfg))
        @@ (RespGroup :> group)
        @@ (RespResource :> resource)
        @@ (RespExport :> resource \o << "." >> \o group)
      payload == Marshal(AuthResponseFields, authResponse)
      encoded == EncodeToString(StdEncoding, payload)
      parsedAuthURL == ParseURL(state.val.RedirectURL)
      values == ValuesAdd(ParseQuery(parsedAuthURL.rawquery), << "a", "u", "t", "h", "_", "r", "e", "s", "p", "o", "n", "s", "e" >>, encoded)
  IN IF ck = {} THEN Error(InternalError, 500, NoCalls)
     ELSE IF ~state.ok THEN Error(InternalError, 500, NoCalls)
     ELSE IF ~idToken.ok THEN Error(InternalError, 500, mint)
     ELSE IF minted.err # <<>> THEN Error(InternalError, 500, mint)
     ELSE IF ~parsedAuthURL.ok THEN Error(InternalError, 500, mint)
     ELSE Redirect(URLString([parsedAuthURL EXCEPT !.rawquery = ValuesEncode(values)]),
                   302, {}, mint)

\* handler.handleBind; minted is what h.kubeManager.HandleResources returns:
\* [err, kfg]
handleBind(r, minted) ==
  LET ck == RequestCookie(r, KubeBindPrefix \o ValuesGet(Query(r), << "s" >>))
      state == SessionDecode((CHOOSE c \in ck : TRUE).value)
      idToken == Unmarshal(ClaimFields, state.val.IDToken)
      group == ValuesGet(Query(r), << "g", "r", "o", "u", "p" >>)
      resource == ValuesGet(Query(r), << "r", "e", "s", "o", "u", "r", "c", "e" >>)
      mint == << Call("HandleResources", << idToken.val[ClaimSub], resource, group >>,
                      minted) >>
      authResponse ==
        (RespSessionID :> state.val.SessionID)
        @@ (RespID :> idToken.val[ClaimIss] \o << "/" >> \o idToken.val[ClaimSub])
        @@ (RespKubeconfig :> EncodeToString(StdEncoding, minted.kfg))
        @@ (RespGroup :> group)
        @@ (RespResource :> resource)
        @@ (RespExport :> resource \o << "." >> \o group)
      payload == Marshal(AuthResponseFields, authResponse)
      encoded == EncodeToString(StdEncoding, payload)
      parsedAuthURL == ParseURL(state.val.RedirectURL)
      values == ValuesAdd(ParseQuery(parsedAuthURL.rawquery), << "a", "u", "t", "h", "_", "r", "e", "s", "p", "o", "n", "s", "e" >>, encoded)
  IN IF ck = {} THEN Error(InternalError, 500, NoCalls)
     ELSE IF ~state.ok THEN Error(InternalError, 500, NoCalls)
     ELSE IF ~idToken.ok THEN Error(InternalError, 500, NoCalls)
     ELSE IF minted.err # <<>> THEN Error(InternalError, 500, mint)
     ELSE IF ~parsedAuthURL.ok THEN Error(InternalError, 500, mint)
     ELSE Redirect(URLString([parsedAuthURL EXCEPT !.rawquery = ValuesEncode(values)]),
                   302, {}, mint)

\* handler.handleServiceExport: the APIServiceProvider descriptor as JSON
handleServiceExport(r) ==
  Response(200, Text("APIServiceProvider", << r.host \o << "/", "a", "u", "t", "h", "o", "r", "i", "z", "e" >> >>), <<>>, {}, NoCalls)

(***************************************************************************)
(* What clients and collaborators can send                                 *)
(***************************************************************************)

\* at most this many resource definitions in the lister's cache
MaxCRDs == 2

\* u of /authorize: absent, a URL with a query of its own, a string url.Parse
\* rejects, a URL holding a byte that is not UTF-8
RedirectURLs ==
  { <<>>, << "h", ":", "/", "c", "?", "k", "=", "v" >>, << ":" >>, << "h", ":", "/", "x255" >> }

\* s of a request: absent, or one of two session ids, one of them with a
\* byte that has a meaning in a query
SessionIDs == { <<>>, << "a" >>, << "b", "+" >> }

Codes == { <<>>, << "c" >> }
ErrorParams == { <<>>, << "a", "c", "c", "e", "s", "s", "_", "d", "e", "n", "i", "e", "d" >> }
ErrorDescription == << "d", "e", "n", "i", "e", "d", " ", "b", "y", " ", "u", "s", "e", "r" >>
Groups == { << "g" >> }
ResourceNames == { << "r" >> }

\* --testing-auto-select: unset, "a.b", and a value without a separator
AutoSelectValues == { <<>>, << "a", ".", "b" >>, << "a", "b" >> }

\* the options a process can be started with: the defaults of NewOptions or
\* an empty --namespace-prefix or --pretty-name, and any --testing-auto-select
Options ==
  [NamespacePrefix : { "", "cluster" }, PrettyName : { "", "Example Backend" },
   TestingAutoSelect : AutoSelectValues]

\* CompletedOptions.Validate (OIDC.Validate, which reads the OIDC options
\* only, passing): no check reads TestingAutoSelect
Validate(options) == options.NamespacePrefix # "" /\ options.PrettyName # ""

\* an upstream error's text
UpstreamError == << "c", "o", "n", "n", "e", "c", "t", "i", "o", "n", " ", "r", "e", "f", "u", "s", "e", "d" >>

\* time.Now() of the one callback this model distinguishes
Now == "now"

GoodClaims == Marshal(ClaimFields, (ClaimSub :> << "u" >>) @@ (ClaimIss :> << "i" >>))
JWT(payload) == << "h", "." >> \o EncodeToString(RawURLEncoding, payload) \o << ".", "g" >>

Token(err, hasIDToken, idToken) ==
  [err |-> err, AccessToken |-> << "A" >>, RefreshToken |-> << "R" >>, Expiry |-> "later",
   hasIDToken |-> hasIDToken, idToken |-> idToken]

\* what the token exchange can return: an error; a token without id_token;
\* an id_token of one part; one whose payload is not base64url; one with the
\* claims; one whose payload is not JSON
ExchangeResults ==
  { Token(UpstreamError, FALSE, <<>>),
    Token(<<>>, FALSE, <<>>),
    Token(<<>>, TRUE, << "h" >>),
    Token(<<>>, TRUE, << "h", ".", "!", ".", "g" >>),
    Token(<<>>, TRUE, JWT(GoodClaims)),
    Token(<<>>, TRUE, JWT(<< "x" >>)) }

MintResults ==
  { [err |-> UpstreamError, kfg |-> <<>>], [err |-> <<>>, kfg |-> << "k" >>] }

CRDNames == { << "a" >>, << "b" >>, << "c" >> }
CRDLists ==
  UNION { { l \in [1..n -> [Name : CRDNames]] : \A i, j \in 1..n : i # j => l[i] # l[j] }
          : n \in 0..MaxCRDs }
ListResults ==
  { [err |-> UpstreamError, crds |-> <<>>] } \cup { [err |-> <<>>, crds |-> l] : l \in CRDLists }

Request(path, rawquery, cookies) ==
  [path |-> path, rawquery |-> rawquery, form |-> <<>>, cookies |-> cookies,
   host |-> << "b", "a", "c", "k", "e", "n", "d" >>]

\* the query parameter key of the URL in a Location header
LocationParam(location, key) == ValuesGet(ParseQuery(ParseURL(location).rawquery), key)

\* GET /authorize?u=&s=
AuthorizeRequest(u, s) ==
  Request(<< "/", "a", "u", "t", "h", "o", "r", "i", "z", "e" >>, ValuesEncode(<< << << "u" >>, u >>, << << "s" >>, s >> >>), {})

\* every /authorize the browser can send, with the handler's answer and the
\* state value the answer hands to the identity provider
Authorizes ==
  { LET r == AuthorizeRequest(u, s)
        resp == handleAuthorize(r)
    IN [u |-> u, s |-> s, req |-> r, resp |-> resp,
        state |-> IF resp.status = 302 THEN LocationParam(resp.location, << "s", "t", "a", "t", "e" >>)
                  ELSE <<>>]
    : u \in RedirectURLs, s \in SessionIDs }

\* the state values handleAuthorize hands to the identity provider, which
\* sends them back on /callback
IssuedStates == { x.state : x \in { y \in Authorizes : y.resp.status = 302 } }

\* state values no /authorize issued: "{}" encoded, not base64, not JSON
ForgedStates ==
  { EncodeToString(StdEncoding, << "{", "}" >>), << "!" >>,
    EncodeToString(StdEncoding, << "x" >>) }

\* GET /callback?code=&state=&error=&error_description=
CallbackRequest(code, state, error) ==
  Request(<< "/", "c", "a", "l", "l", "b", "a", "c", "k" >>,
          ValuesEncode(<< << << "c", "o", "d", "e" >>, code >>, << << "s", "t", "a", "t", "e" >>, state >>,
                          << << "e", "r", "r", "o", "r" >>, error >>,
                          << << "e", "r", "r", "o", "r", "_", "d", "e", "s", "c", "r", "i", "p", "t", "i", "o", "n" >>,
                             IF error = <<>> THEN <<>> ELSE ErrorDescription >> >>),
          {})

\* the HandshakeRequest a state value decodes to, as handleCallback decodes it
DecodeState(state) ==
  LET decode == DecodeString(StdEncoding, state)
      authCode == Unmarshal(AuthCodeFields, decode.val)
  IN IF decode.ok /\ authCode.ok THEN [ok |-> TRUE, val |-> authCode.val]
     ELSE [ok |-> FALSE, val |-> AuthCode(<<>>, <<>>)]

\* every /callback the browser can be sent to, with what the exchange returns
\* and the handler's answer; authCode is what the request's state decodes to
Callbacks ==
  { LET r == CallbackRequest(code, state, error)
    IN [code |-> code, state |-> state, error |-> error, token |-> token, req |-> r,
        resp |-> handleCallback(r, token, Now), authCode |-> DecodeState(state)]
    : code \in Codes, state \in IssuedStates \cup ForgedStates, error \in ErrorParams,
      token \in ExchangeResults }

\* GET /resources?s=
ResourcesRequest(s) ==
  Request(<< "/", "r", "e", "s", "o", "u", "r", "c", "e", "s" >>, ValuesEncode(<< << << "s" >>, s >> >>), {})

\* every /resources the browser can send, under each configuration and with
\* what the lister returns, and the handler's answer
ResourcesServed ==
  { LET r == ResourcesRequest(s)
    IN [s |-> s, auto |-> auto, req |-> r, resp |-> handleResources(r, auto, listed)]
    : s \in SessionIDs, auto \in AutoSelectValues, listed \in ListResults }

\* the session cookie values the browser can hold, and one the codec did not
\* write
SessionValues == UNION { { c.value : c \in x.resp.cookies } : x \in Callbacks }

\* GET /bind?s=&group=&resource=
BindRequest(s, group, resource, cookies) ==
  Request(<< "/", "b", "i", "n", "d" >>,
          ValuesEncode(<< << << "s" >>, s >>, << << "g", "r", "o", "u", "p" >>, group >>,
                          << << "r", "e", "s", "o", "u", "r", "c", "e" >>, resource >> >>),
          cookies)

\* a /bind carrying the cookies ck, with what the minter returns and the
\* handler's answer
BindServed(s, group, resource, ck, minted) ==
  LET r == BindRequest(s, group, resource, ck)
  IN [s |-> s, group |-> group, resource |-> resource, ck |-> ck, minted |-> minted,
      req |-> r, resp |-> handleBind(r, minted)]

\* every /bind the browser can send, by the cookie of the session's name it
\* carries (ck: none or one; handleBind reads no other cookie), with what the
\* minter returns and the handler's answer
BindsOf(s) ==
  { BindServed(s, group, resource, ck, minted)
    : group \in Groups, resource \in ResourceNames, minted \in MintResults,
      ck \in { {} } \cup { { [name |-> KubeBindPrefix \o s, value |-> v] }
                          : v \in SessionValues \cup { GarbageValue } } }
Binds == UNION { BindsOf(s) : s \in SessionIDs }

\* the Location headers the backend writes, parsed as the browser parses them
Locations ==
  { x.resp.location : x \in Authorizes \cup Callbacks \cup ResourcesServed \cup Binds }
ParsedLocations == { [location |-> l, url |-> ParseURL(l)] : l \in Locations }

(***************************************************************************)
(* The serviceexport reconciler.  An APIServiceExport is [scope, resources, *)
(* conditions]; conditions maps each condition type to a condition          *)
(* [status, reason, severity] or to NoCondition.                            *)
(***************************************************************************)

\* at most this many resources in an export's spec
MaxResources == 2

ConditionTypes == { "Ready", "Connected", "SchemaInSync", "ServiceBindingReady", "ResourcesValid" }

NoCondition == [status |-> "", reason |-> "", severity |-> ""]

\* conditions.TrueCondition and conditions.FalseCondition
TrueCondition == [status |-> "True", reason |-> "", severity |-> ""]
FalseCondition(reason, severity) == [status |-> "False", reason |-> reason, severity |-> severity]

\* conditions.Get(from, t): NoCondition for nil
Get(from, t) == from.conditions[t]

\* conditions.Set(to, condition) for the condition of type t
Set(to, t, condition) ==
  IF condition = NoCondition THEN to
  ELSE [to EXCEPT !.conditions = [to.conditions EXCEPT ![t] = condition]]

\* conditions.MarkTrue and conditions.MarkFalse
MarkTrue(to, t) == Set(to, t, TrueCondition)
MarkFalse(to, t, reason, severity) == Set(to, t, FalseCondition(reason, severity))

\* the order in which conditions.Set keeps the conditions other than Ready
SummaryOrder == << "Connected", "ResourcesValid", "SchemaInSync", "ServiceBindingReady" >>

\* conditions.SetSummary(to): Ready summarises the other conditions, False
\* as the first False condition of the highest severity if there is one, True
\* otherwise; nothing is set when there is no other condition
SetSummary(to) ==
  LET set == { i \in DOMAIN SummaryOrder : to.conditions[SummaryOrder[i]] # NoCondition }
      false(severity) ==
        { i \in set : /\ to.conditions[SummaryOrder[i]].status = "False"
                      /\ to.conditions[SummaryOrder[i]].severity = severity }
      worst == IF false("Error") # {} THEN false("Error")
               ELSE IF false("Warning") # {} THEN false("Warning")
               ELSE false("Info")
      first == CHOOSE i \in worst : \A k \in worst : i <= k
  IN IF set = {} THEN to
     ELSE IF worst = {} THEN Set(to, "Ready", TrueCondition)
     ELSE Set(to, "Ready", to.conditions[SummaryOrder[first]])

\* utilerrors.NewAggregate(errs): nil for no error
NewAggregate(errs) == IF Len(errs) = 0 THEN <<>> ELSE errs

\* reconciler.ensureServiceBindingConditionCopied: the export after it
ensureServiceBindingConditionCopied(export, binding) ==
  LET inSync == Get(binding, "SchemaInSync")
      ready == Get(binding, "Ready")
      synced == IF inSync # NoCondition THEN Set(export, "SchemaInSync", inSync)
                ELSE MarkFalse(export, "SchemaInSync", "Unknown", "Info")
  IN IF ready # NoCondition THEN Set(synced, "ServiceBindingReady", ready)
     ELSE MarkFalse(synced, "ServiceBindingReady", "Unknown", "Info")

\* the loop of reconciler.ensureResourcesExist from resource i on; fetched[i]
\* is what getServiceExportResource returns for export.resources[i]: [err,
\* scope, convertible], err "" for none.  The loop's state is [export,
\* resourceValid, errs].
RECURSIVE ensureEachResource(_, _, _)
ensureEachResource(st, fetched, i) ==
  IF i > Len(st.export.resources) THEN st
  ELSE LET got == fetched[i]
           invalid(reason) ==
             [st EXCEPT !.export = MarkFalse(st.export, "ResourcesValid", reason, "Error"),
                        !.resourceValid = FALSE]
           next ==
             IF got.err # "" /\ got.err # "NotFound"
               THEN [st EXCEPT !.errs = Append(st.errs, got.err)]
             ELSE IF got.err = "NotFound" THEN invalid("ServiceExportResourceNotFound")
             ELSE IF got.scope # "Namespaced" /\ st.export.scope # "Cluster"
               THEN invalid("ServiceExportResourceWrongScope")
             ELSE IF ~got.convertible THEN invalid("ServiceExportResourceInvalid")
             ELSE st
       IN ensureEachResource(next, fetched, i + 1)

\* reconciler.ensureResourcesExist: [export, err]
ensureResourcesExist(export, fetched) ==
  LET st == ensureEachResource([export |-> export, resourceValid |-> TRUE, errs |-> <<>>],
                               fetched, 1)
  IN [export |-> IF st.resourceValid THEN MarkTrue(st.export, "ResourcesValid")
                 ELSE st.export,
      err |-> NewAggregate(st.errs)]

\* reconcile without the branch of lines 52-59, so that the first of several
\* bindings is taken: C19 does not hold of it
reconcileConnectsToFirst(export, listed, fetched) ==
  LET connected ==
        IF Len(listed.bindings) = 0
          THEN MarkFalse(export, "Connected", "NoServiceBinding", "Info")
        ELSE ensureServiceBindingConditionCopied(MarkTrue(export, "Connected"),
                                                 listed.bindings[1])
      resources == ensureResourcesExist(connected, fetched)
  IN IF listed.err # "" THEN [export |-> export, err |-> << listed.err >>]
     ELSE [export |-> SetSummary(resources.export), err |-> NewAggregate(resources.err)]

\* reconciler.reconcile; listed is what listServiceBinding returns: [err,
\* bindings].  [export, err]
reconcile(export, listed, fetched) ==
  LET connected ==
        IF Len(listed.bindings) = 0
          THEN MarkFalse(export, "Connected", "NoServiceBinding", "Info")
        ELSE IF Len(listed.bindings) > 1
          THEN MarkFalse(export, "Connected", "MultipleServiceBindings", "Error")
        ELSE ensureServiceBindingConditionCopied(MarkTrue(export, "Connected"),
                                                 listed.bindings[1])
      resources == ensureResourcesExist(connected, fetched)
  IN IF listed.err # "" THEN [export |-> export, err |-> << listed.err >>]
     ELSE [export |-> SetSummary(resources.export), err |-> NewAggregate(resources.err)]

\* what the clusters can hold: an export's scope and resources, the
\* conditions of an APIServiceBinding, what getServiceExportResource and
\* listServiceBinding return
ExportScopes == { "Namespaced", "Cluster" }
NoConditions == [t \in ConditionTypes |-> NoCondition]
Exports ==
  { [scope |-> scope, resources |-> [i \in 1..n |-> "r.g"], conditions |-> NoConditions]
    : scope \in ExportScopes, n \in 0..MaxResources }
Bindings ==
  { [conditions |-> [NoConditions EXCEPT !["SchemaInSync"] = inSync, !["Ready"] = ready]]
    : inSync \in { NoCondition, TrueCondition, FalseCondition("SchemaDrift", "Warning") },
      ready \in { NoCondition, TrueCondition } }
Fetched ==
  { [err |-> "NotFound", scope |-> "", convertible |-> FALSE],
    [err |-> "connection refused", scope |-> "", convertible |-> FALSE],
    [err |-> "", scope |-> "Namespaced", convertible |-> TRUE],
    [err |-> "", scope |-> "Cluster", convertible |-> TRUE],
    [err |-> "", scope |-> "Namespaced", convertible |-> FALSE] }
Listed ==
  { [err |-> "connection refused", bindings |-> <<>>], [err |-> "", bindings |-> <<>>] }
  \cup { [err |-> "", bindings |-> << b >>] : b \in Bindings }
  \cup { [err |-> "", bindings |-> << b, b >>]
         : b \in { c \in Bindings : c.conditions["Ready"] = TrueCondition } }

(***************************************************************************)
(* The state machine: one backend, one browser, and the handshakes of the  *)
(* session ids in DOMAIN phase; one APIServiceExport and its reconciler    *)
(***************************************************************************)

VARIABLES
  testingAutoSelect,  \* handler.testingAutoSelect
  jar,                \* the browser's cookies: [name, value, maxAge], and the
                      \* state value of the /callback that set each (from)
  phase,              \* the spec's handshake state of each session id
  last,               \* the last request served and its response
  export,             \* the APIServiceExport the reconciler is given
  cluster,            \* what the reconciler's listServiceBinding (listed) and
                      \* getServiceExportResource (fetched, by resource) return
  reconciled          \* whether reconcile has run since the clusters last
                      \* changed, and the error it returned

vars == << testingAutoSelect, jar, phase, last, export, cluster, reconciled >>

\* the backend and the browser, which the reconciler does not touch
handshake == << testingAutoSelect, jar, phase, last >>

\* the reconciler, which the backend and the browser do not touch
reconciler == << export, cluster, reconciled >>

\* no reconcile yet
NotReconciled == [done |-> FALSE, err |-> <<>>]

\* no binding, and every resource of the export valid
EmptyCluster(resources) ==
  [listed |-> [err |-> "", bindings |-> <<>>],
   fetched |-> [i \in DOMAIN resources |-> [err |-> "", scope |-> "Namespaced", convertible |-> TRUE]]]

NoResponse == Response(0, Text("", <<>>), <<>>, {}, NoCalls)

Init ==
  /\ testingAutoSelect \in { o.TestingAutoSelect : o \in { p \in Options : Validate(p) } }
  /\ jar = {}
  /\ phase = [s \in { << "a" >> } |-> "INIT"]
  /\ last = [handler |-> "", req |-> Request(<<>>, <<>>, {}), resp |-> NoResponse]
  /\ export = [scope |-> "Namespaced", resources |-> <<>>, conditions |-> NoConditions]
  /\ cluster = EmptyCluster(<<>>)
  /\ reconciled = NotReconciled

\* the Cookie header the browser sends
Cookies == { [name |-> c.name, value |-> c.value] : c \in jar }

\* a browser that keeps the cookie it has when a response sets one of the
\* same name: C15 does not hold of it
StoreKeepsFirst(resp, from) ==
  jar \cup { [name |-> n.name, value |-> n.value, maxAge |-> n.maxAge, from |-> from]
             : n \in { m \in resp.cookies : \A c \in jar : c.name # m.name } }

\* the browser's cookies after a response
Store(resp, from) ==
  { c \in jar : \A n \in resp.cookies : n.name # c.name }
  \cup { [name |-> n.name, value |-> n.value, maxAge |-> n.maxAge, from |-> from]
         : n \in resp.cookies }

\* the request names no session id, or one whose handshake is followed
InPlay(s) == s = <<>> \/ s \in DOMAIN phase

\* the handshake of session id s moves to phase p
Advance(s, p) == IF s \in DOMAIN phase THEN [phase EXCEPT ![s] = p] ELSE phase

Failed(resp) == resp.panicked \/ resp.status >= 400

\* handler served the request req, sent with the cookies sent, with resp
Served(handler, req, sent, resp) ==
  last' = [handler |-> handler, req |-> [req EXCEPT !.cookies = sent], resp |-> resp]

\* the browser follows the redirect of the last response, whose Location it
\* parses as p.url, to this backend
Follows(p) ==
  /\ last.resp.status = 302
  /\ p.location = last.resp.location
  /\ p.url.ok /\ p.url.scheme = <<>> /\ p.url.authority = <<>>

\* GET /authorize?u=&s=, one of requests; no handler but handleBind reads a
\* cookie
AuthorizeFrom(requests) ==
  \E x \in requests :
    /\ InPlay(x.s)
    /\ Route(x.req.path) = "handleAuthorize"
    /\ Served("handleAuthorize", x.req, Cookies, x.resp)
    /\ jar' = Store(x.resp, <<>>)
    /\ phase' = Advance(x.s, IF Failed(x.resp) THEN "FAILED" ELSE "AUTHORIZING")
    /\ UNCHANGED << testingAutoSelect, reconciler >>

Authorize == AuthorizeFrom(Authorizes)

\* GET /callback?code=&state=&error=&error_description=, one of requests, for
\* the session id the state decodes to
CallbackFrom(requests) ==
  \E x \in requests :
    LET s == x.authCode.val[AuthCodeSessionID]
    IN /\ InPlay(s)
       /\ Route(x.req.path) = "handleCallback"
       /\ Served("handleCallback", x.req, Cookies, x.resp)
       /\ jar' = Store(x.resp, x.state)
       /\ phase' = IF Failed(x.resp) THEN Advance(s, "FAILED")
                   ELSE IF s \in DOMAIN phase /\ phase[s] = "AUTHORIZING"
                     THEN Advance(s, "SESSION_ESTABLISHED")
                   ELSE phase
       /\ UNCHANGED << testingAutoSelect, reconciler >>

Callback == CallbackFrom(Callbacks)

\* GET /resources?s=, one of requests
ResourcesFrom(requests) ==
  \E x \in requests :
    /\ x.auto = testingAutoSelect
    /\ InPlay(x.s)
    /\ Route(x.req.path) = "handleResources"
    /\ Served("handleResources", x.req, Cookies, x.resp)
    /\ jar' = Store(x.resp, <<>>)
    /\ phase' = IF Failed(x.resp) THEN Advance(x.s, "FAILED") ELSE phase
    /\ UNCHANGED << testingAutoSelect, reconciler >>

Resources == ResourcesFrom(ResourcesServed)

\* GET /bind?s=&group=&resource=, one of requests, with the browser's cookies
\* or, if forgeries are possible, with a cookie of the session's name that the
\* session codec did not write
BindFrom(requests, forgeries) ==
  \E x \in requests, forged \in forgeries :
    LET name == KubeBindPrefix \o x.s
        sent == IF forged
                  THEN { c \in Cookies : c.name # name }
                       \cup { [name |-> name, value |-> GarbageValue] }
                  ELSE Cookies
    IN /\ InPlay(x.s)
       /\ x.ck = sent \/ x.ck = { c \in sent : c.name = name }
       /\ Route(x.req.path) = "handleBind"
       /\ Served("handleBind", x.req, sent, x.resp)
       /\ jar' = Store(x.resp, <<>>)
       /\ phase' = Advance(x.s, IF Failed(x.resp) THEN "FAILED" ELSE "BOUND")
       /\ UNCHANGED << testingAutoSelect, reconciler >>

Bind == BindFrom(Binds, BOOLEAN)

\* GET /export
Export ==
  LET r == Request(<< "/", "e", "x", "p", "o", "r", "t" >>, <<>>, {})
  IN /\ Route(r.path) = "handleServiceExport"
     /\ Served("handleServiceExport", r, Cookies, handleServiceExport(r))
     /\ UNCHANGED << testingAutoSelect, jar, phase, reconciler >>

\* the browser follows a redirect to a path of this backend that has no
\* route: the router answers 404
NotFound ==
  \E p \in ParsedLocations :
    /\ Follows(p)
    /\ Route(p.url.path) = ""
    /\ Served("", Request(p.url.path, p.url.rawquery, {}), Cookies,
              Error(Text("404 page not found", <<>>), 404, NoCalls))
    /\ UNCHANGED << testingAutoSelect, jar, phase, reconciler >>

Next == Authorize \/ Callback \/ Resources \/ Bind \/ Export \/ NotFound

Spec == Init /\ [][Next]_vars


(***************************************************************************)
(* Two handshakes with distinct session ids, interleaved in any order in   *)
(* one browser: every request is one of a handshake started with           *)
(* /authorize for a URL that url.Parse accepts, carries the identity       *)
(* provider's code and state and the browser's own cookies                 *)
(***************************************************************************)

InitTwoSessions ==
  /\ testingAutoSelect \in { o.TestingAutoSelect : o \in { p \in Options : Validate(p) } }
  /\ jar = {}
  /\ phase = [s \in SessionIDs \ { <<>> } |-> "INIT"]
  /\ last = [handler |-> "", req |-> Request(<<>>, <<>>, {}), resp |-> NoResponse]
  /\ export = [scope |-> "Namespaced", resources |-> <<>>, conditions |-> NoConditions]
  /\ cluster = EmptyCluster(<<>>)
  /\ reconciled = NotReconciled

HandshakeAuthorizes ==
  { x \in Authorizes : x.s # <<>> /\ x.u \notin { <<>>, << ":" >> } }

HandshakeCallbacks ==
  { x \in Callbacks :
      /\ x.code # <<>> /\ x.error = <<>>
      /\ x.state \in { y.state : y \in HandshakeAuthorizes }
      /\ x.token \in { Token(UpstreamError, FALSE, <<>>), Token(<<>>, TRUE, JWT(GoodClaims)) } }

HandshakeResources ==
  { x \in ResourcesServed : x.s # <<>> /\ x.resp.status # 200 }

\* the cookies the browser can hold: for each session id none or one that a
\* callback of HandshakeCallbacks has set
HandshakeCookies ==
  { [name |-> c.name, value |-> c.value]
    : c \in UNION { x.resp.cookies : x \in HandshakeCallbacks } }
HandshakeJars ==
  { ck \in SUBSET HandshakeCookies : \A c, d \in ck : c.name = d.name => c = d }

\* every /bind of the two handshakes, with all the cookies the browser sends
HandshakeBinds ==
  { BindServed(s, group, resource, ck, minted)
    : s \in SessionIDs \ { <<>> }, group \in Groups, resource \in ResourceNames,
      ck \in HandshakeJars, minted \in MintResults }

NextTwoSessions ==
  \/ AuthorizeFrom(HandshakeAuthorizes)
  \/ CallbackFrom(HandshakeCallbacks)
  \/ ResourcesFrom(HandshakeResources)
  \/ BindFrom(HandshakeBinds, { FALSE })
  \/ Export
  \/ NotFound

SpecTwoSessions == InitTwoSessions /\ [][NextTwoSessions]_vars

(***************************************************************************)
(* The reconciler, called again and again on one APIServiceExport while    *)
(* the clusters change                                                     *)
(***************************************************************************)

InitReconcile ==
  /\ testingAutoSelect = <<>>
  /\ jar = {}
  /\ phase = [s \in { << "a" >> } |-> "INIT"]
  /\ last = [handler |-> "", req |-> Request(<<>>, <<>>, {}), resp |-> NoResponse]
  /\ export \in Exports
  /\ cluster = EmptyCluster(export.resources)
  /\ reconciled = NotReconciled

\* the APIServiceBindings of the export change, or listing them starts or
\* stops failing
BindingsChange ==
  \E listed \in Listed :
    /\ cluster' = [cluster EXCEPT !.listed = listed]
    /\ reconciled' = NotReconciled
    /\ UNCHANGED << handshake, export >>

\* an APIServiceExportResource of the export changes, or fetching it starts
\* or stops failing
ResourceChanges ==
  \E i \in DOMAIN cluster.fetched, fetched \in Fetched :
    /\ cluster' = [cluster EXCEPT !.fetched[i] = fetched]
    /\ reconciled' = NotReconciled
    /\ UNCHANGED << handshake, export >>

\* reconciler.reconcile(ctx, export)
Reconcile ==
  LET r == reconcile(export, cluster.listed, cluster.fetched)
  IN /\ export' = r.export
     /\ reconciled' = [done |-> TRUE, err |-> r.err]
     /\ UNCHANGED << handshake, cluster >>

NextReconcile == BindingsChange \/ ResourceChanges \/ Reconcile

SpecReconcile == InitReconcile /\ [][NextReconcile]_vars
(***************************************************************************)
(* Vocabulary of the properties                                            *)
(***************************************************************************)

\* the steps of the handshake
Steps == { "handleAuthorize", "handleCallback", "handleResources", "handleBind" }

\* the calls to collaborator op made while answering with resp
CallsTo(resp, op) == { resp.calls[i] : i \in { j \in DOMAIN resp.calls : resp.calls[j].op = op } }

\* the Credential Minter returned a credential while answering with resp
Minted(resp) == \E c \in CallsTo(resp, "HandleResources") : c.err = <<>>

\* the query parameter key of the last request
LastParam(key) == ValuesGet(Query(last.req), key)

\* the text body holds the value v
BodyHolds(body, v) == \E i \in DOMAIN body.args : body.args[i] = v

\* the CredentialResponse the auth_response parameter of a Location decodes
\* to: [ok, val]
AuthResponseOf(location) ==
  LET decode == DecodeString(StdEncoding, LocationParam(location, << "a", "u", "t", "h", "_", "r", "e", "s", "p", "o", "n", "s", "e" >>))
      authResponse == Unmarshal(AuthResponseFields, decode.val)
  IN [ok |-> decode.ok /\ authResponse.ok, val |-> authResponse.val]

\* the pairs of a query, in any order
PairsOf(values) == { values[i] : i \in DOMAIN values }

\* location is the URL target with an auth_response parameter added to its
\* query; a path is the same escaped or not
RedirectsTo(location, target) ==
  LET l == ParseURL(location)
      u == ParseURL(target)
  IN /\ l.ok /\ u.ok
     /\ l.scheme = u.scheme /\ l.opaque = u.opaque /\ l.authority = u.authority
     /\ Unescape(l.path, FALSE).val = Unescape(u.path, FALSE).val
     /\ l.fragment = u.fragment
     /\ { p \in PairsOf(ParseQuery(l.rawquery)) : p[1] # << "a", "u", "t", "h", "_", "r", "e", "s", "p", "o", "n", "s", "e" >> }
        = PairsOf(ParseQuery(u.rawquery))
     /\ LocationParam(location, << "a", "u", "t", "h", "_", "r", "e", "s", "p", "o", "n", "s", "e" >>) # <<>>

\* the answer is a server error with the fixed generic body
GenericServerError(resp) ==
  /\ resp.status \in 500..599
  /\ resp.body = Text("internal error", <<>>)

(***************************************************************************)
(* The properties                                                          *)
(***************************************************************************)

\* C1: a step that failed (a 4xx/5xx answer or a panic) set no session cookie
\* and did not get a credential from the Credential Minter while it ran.
C1_FailedStepLeavesNoArtifact ==
  (last.handler \in Steps /\ Failed(last.resp))
    => (last.resp.cookies = {} /\ ~Minted(last.resp))

\* C2: once a session id's handshake is BOUND or FAILED, no /bind for that
\* session id mints a credential or redirects with an auth_response before a
\* new /authorize and /callback: no step leads from BOUND or FAILED straight
\* to such a /bind.
C2_NoPathBackFromBoundOrFailed ==
  [][\A s \in DOMAIN phase :
       (/\ phase[s] \in { "BOUND", "FAILED" }
        /\ last'.handler = "handleBind"
        /\ Minted(last'.resp) \/ last'.resp.status = 302)
         => ValuesGet(Query(last'.req), << "s" >>) # s]_vars

\* C3: a /callback whose error parameter is not empty is answered 400 with a
\* body holding the request's error_description, without a token exchange and
\* without a session cookie.
C3_CallbackErrorRejected ==
  (last.handler = "handleCallback" /\ LastParam(<< "e", "r", "r", "o", "r" >>) # <<>>)
    => /\ last.resp.status = 400
       /\ BodyHolds(last.resp.body,
                    LastParam(<< "e", "r", "r", "o", "r", "_", "d", "e", "s", "c", "r", "i", "p", "t", "i", "o", "n" >>))
       /\ CallsTo(last.resp, "Exchange") = {}
       /\ last.resp.cookies = {}

\* C4: with the auto-select override "a.b" configured, every /resources
\* request is answered, without a call to the lister, by a 302 to the bind
\* step: a URL that AddRoutes routes to handleBind, for the pair a, b.
C4_AutoSelectRedirectsToBind ==
  (last.handler = "handleResources" /\ testingAutoSelect = << "a", ".", "b" >>)
    => /\ CallsTo(last.resp, "List") = {}
       /\ last.resp.status = 302
       /\ Route(ParseURL(last.resp.location).path) = "handleBind"
       /\ { LocationParam(last.resp.location, << "g", "r", "o", "u", "p" >>),
            LocationParam(last.resp.location, << "r", "e", "s", "o", "u", "r", "c", "e" >>) }
          = { << "a" >>, << "b" >> }

\* C5: a handshake whose redirectURL or sessionID is empty is rejected before
\* any external call: handleAuthorize does not redirect to the identity
\* provider when u or s is empty, and handleCallback does not call the token
\* exchange when the state decodes to an empty RedirectURL or SessionID.
C5_EmptyHandshakeRejectedBeforeExternalCall ==
  /\ (/\ last.handler = "handleAuthorize"
      /\ LastParam(<< "u" >>) = <<>> \/ LastParam(<< "s" >>) = <<>>)
       => last.resp.status # 302
  /\ (/\ last.handler = "handleCallback"
      /\ LET authCode == DecodeState(LastParam(<< "s", "t", "a", "t", "e" >>))
         IN /\ authCode.ok
            /\ authCode.val[AuthCodeRedirectURL] = <<>> \/ authCode.val[AuthCodeSessionID] = <<>>)
       => CallsTo(last.resp, "Exchange") = {}

\* C6: handleAuthorize answers 400, without a redirect, a cookie or a call,
\* when u or s is empty, and otherwise 302 to the identity provider's
\* authorization URL.
C6_AuthorizeValidatesQuery ==
  last.handler = "handleAuthorize"
    => IF LastParam(<< "u" >>) = <<>> \/ LastParam(<< "s" >>) = <<>>
         THEN /\ last.resp.status = 400
              /\ last.resp.location = <<>>
              /\ last.resp.cookies = {}
              /\ last.resp.calls = NoCalls
         ELSE /\ last.resp.status = 302
              /\ HasPrefix(last.resp.location, AuthEndpoint \o << "?" >>)
              /\ last.resp.cookies = {}

\* C6's case: an /authorize with u but without s was answered
C6_Witness ==
  /\ last.handler = "handleAuthorize"
  /\ LastParam(<< "u" >>) # <<>> /\ LastParam(<< "s" >>) = <<>>
  /\ last.resp.status = 400

\* C7: the state handleAuthorize puts on the identity-provider redirect for a
\* non-empty (u, s) decodes, as handleCallback decodes it, to the AuthCode
\* with RedirectURL = u and SessionID = s.
C7_StateRoundTrip ==
  (/\ last.handler = "handleAuthorize"
   /\ LastParam(<< "u" >>) # <<>> /\ LastParam(<< "s" >>) # <<>>)
    => LET authCode == DecodeState(LocationParam(last.resp.location, << "s", "t", "a", "t", "e" >>))
       IN /\ authCode.ok
          /\ authCode.val = AuthCode(LastParam(<< "u" >>), LastParam(<< "s" >>))

\* C8: a full successful handshake started with /authorize?u=U&s=S (the
\* callback's exchange succeeded and set the cookie, /bind carried that cookie
\* and the minter returned a credential) ends in a 302 to U with an added
\* auth_response whose CredentialResponse has SessionID = S and
\* Export = resource + "." + group.
C8_FullHandshakeRedirectsToCaller ==
  \A x \in Authorizes : \A c \in jar :
    (/\ last.handler = "handleBind"
     /\ Minted(last.resp)
     /\ x.resp.status = 302
     /\ c.from = x.state
     /\ c.name = KubeBindPrefix \o x.s
     /\ [name |-> c.name, value |-> c.value] \in last.req.cookies
     /\ LastParam(<< "s" >>) = x.s)
      => /\ last.resp.status = 302
         /\ RedirectsTo(last.resp.location, x.u)
         /\ LET authResponse == AuthResponseOf(last.resp.location)
            IN /\ authResponse.ok
               /\ authResponse.val[RespSessionID] = x.s
               /\ authResponse.val[RespExport]
                    = LastParam(<< "r", "e", "s", "o", "u", "r", "c", "e" >>) \o << "." >> \o LastParam(<< "g", "r", "o", "u", "p" >>)

\* C9: a /bind with a decodable session cookie, parseable claims and a
\* successful mint is answered by a 302 to the RedirectURL of the SessionState
\* with an auth_response whose CredentialResponse has Export = resource + "."
\* + group, ID = issuer + "/" + subject, the request's group and resource, and
\* the SessionState's SessionID.
C9_BindRedirectsToStoredURL ==
  \A c \in last.req.cookies :
    (/\ last.handler = "handleBind"
     /\ c.name = KubeBindPrefix \o LastParam(<< "s" >>)
     /\ SessionDecode(c.value).ok
     /\ Unmarshal(ClaimFields, SessionDecode(c.value).val.IDToken).ok
     /\ Minted(last.resp))
      => LET state == SessionDecode(c.value).val
             idToken == Unmarshal(ClaimFields, state.IDToken).val
             group == LastParam(<< "g", "r", "o", "u", "p" >>)
             resource == LastParam(<< "r", "e", "s", "o", "u", "r", "c", "e" >>)
             authResponse == AuthResponseOf(last.resp.location)
         IN /\ last.resp.status = 302
            /\ RedirectsTo(last.resp.location, state.RedirectURL)
            /\ authResponse.ok
            /\ authResponse.val[RespExport] = resource \o << "." >> \o group
            /\ authResponse.val[RespID] = idToken[ClaimIss] \o << "/" >> \o idToken[ClaimSub]
            /\ authResponse.val[RespGroup] = group
            /\ authResponse.val[RespResource] = resource
            /\ authResponse.val[RespSessionID] = state.SessionID

\* an upstream failure happened while the last request was served: the token
\* exchange failed or returned no id_token or one parseJWT rejects; the lister
\* failed; /bind came without the session's cookie, with one that does not
\* decode or whose claims do not parse, or the minter failed
UpstreamFailure ==
  \/ /\ last.handler = "handleCallback"
     /\ \E c \in CallsTo(last.resp, "Exchange") :
          c.err # <<>> \/ ~c.ret.hasIDToken \/ ~parseJWT(c.ret.idToken).ok
  \/ /\ last.handler = "handleResources"
     /\ \E c \in CallsTo(last.resp, "List") : c.err # <<>>
  \/ /\ last.handler = "handleBind"
     /\ LET ck == RequestCookie(last.req, KubeBindPrefix \o LastParam(<< "s" >>))
        IN \/ ck = {}
           \/ \E c \in ck : ~SessionDecode(c.value).ok
           \/ \E c \in ck : /\ SessionDecode(c.value).ok
                             /\ ~Unmarshal(ClaimFields, SessionDecode(c.value).val.IDToken).ok
           \/ \E c \in CallsTo(last.resp, "HandleResources") : c.err # <<>>

\* C10: every upstream failure is answered by a 500-class status with the
\* fixed generic body, in which no upstream error text appears.
C10_UpstreamFailuresAreGeneric ==
  UpstreamFailure => GenericServerError(last.resp)

\* C10's case: the lister failed while /resources was served
C10_Witness ==
  /\ last.handler = "handleResources"
  /\ \E c \in CallsTo(last.resp, "List") : c.err = UpstreamError
  /\ last.resp.status = 500


\* C11: a /callback without an error parameter and with an empty code is
\* answered 400, without a token exchange, a cookie or a redirect.
C11_CallbackWithoutCodeRejected ==
  (/\ last.handler = "handleCallback"
   /\ LastParam(<< "e", "r", "r", "o", "r" >>) = <<>>
   /\ LastParam(<< "c", "o", "d", "e" >>) = <<>>)
    => /\ last.resp.status = 400
       /\ CallsTo(last.resp, "Exchange") = {}
       /\ last.resp.cookies = {}
       /\ last.resp.location = <<>>

\* C11's case: a /callback with an issued state and no code was answered
C11_Witness ==
  /\ last.handler = "handleCallback"
  /\ LastParam(<< "e", "r", "r", "o", "r" >>) = <<>>
  /\ LastParam(<< "c", "o", "d", "e" >>) = <<>>
  /\ LastParam(<< "s", "t", "a", "t", "e" >>) \in IssuedStates
  /\ last.resp.status = 400

\* C12: a session cookie is written only by a /callback whose token exchange
\* succeeded and returned an id_token that parseJWT accepts, and the cookie
\* holds the whole SessionState: CreatedAt, ExpiresOn, AccessToken, IDToken
\* and RefreshToken from that exchange, RedirectURL and SessionID from the
\* decoded state.
C12_CookieOnlyAfterExchange ==
  \A c \in last.resp.cookies :
    /\ last.handler = "handleCallback"
    /\ \E x \in CallsTo(last.resp, "Exchange") :
         LET authCode == DecodeState(LastParam(<< "s", "t", "a", "t", "e" >>))
             state == SessionDecode(c.value)
         IN /\ x.err = <<>> /\ x.ret.hasIDToken /\ parseJWT(x.ret.idToken).ok
            /\ authCode.ok /\ state.ok
            /\ state.val = SessionState(Now, x.ret.Expiry, x.ret.AccessToken,
                                        parseJWT(x.ret.idToken).val, x.ret.RefreshToken,
                                        authCode.val[AuthCodeRedirectURL],
                                        authCode.val[AuthCodeSessionID])

\* C12's case: a /callback wrote a session cookie
C12_Witness ==
  /\ last.handler = "handleCallback"
  /\ last.resp.status = 302
  /\ \E c \in last.resp.cookies : SessionDecode(c.value).val.IDToken = GoodClaims

\* C13: only handleBind calls the Credential Minter.  Without the cookie
\* "kube-bind-"+s, with one that does not decode or whose claims do not
\* parse, the answer is the generic 500 without a call and without a
\* redirect; otherwise the minter is called exactly once, with the subject of
\* the claims and the resource and group of the query.
C13_MinterCalledOnceAfterSession ==
  IF last.handler # "handleBind" THEN CallsTo(last.resp, "HandleResources") = {}
  ELSE LET ck == RequestCookie(last.req, KubeBindPrefix \o LastParam(<< "s" >>))
       IN IF \/ ck = {}
             \/ \E c \in ck : \/ ~SessionDecode(c.value).ok
                              \/ ~Unmarshal(ClaimFields, SessionDecode(c.value).val.IDToken).ok
            THEN /\ GenericServerError(last.resp)
                 /\ last.resp.calls = NoCalls
                 /\ last.resp.location = <<>>
            ELSE /\ Len(last.resp.calls) = 1
                 /\ last.resp.calls[1].op = "HandleResources"
                 /\ \A c \in ck :
                      last.resp.calls[1].args
                        = << Unmarshal(ClaimFields, SessionDecode(c.value).val.IDToken).val[ClaimSub],
                             LastParam(<< "r", "e", "s", "o", "u", "r", "c", "e" >>),
                             LastParam(<< "g", "r", "o", "u", "p" >>) >>

\* C13's case: a /bind whose cookie decodes to claims that do not parse was
\* answered without a call to the minter
C13_Witness ==
  /\ last.handler = "handleBind"
  /\ last.resp.status = 500
  /\ last.resp.calls = NoCalls
  /\ \E c \in RequestCookie(last.req, KubeBindPrefix \o LastParam(<< "s" >>)) :
       /\ SessionDecode(c.value).ok
       /\ ~Unmarshal(ClaimFields, SessionDecode(c.value).val.IDToken).ok

\* the /bind last served for session id s redirected with an auth_response
\* that carries SessionID s, from the cookie "kube-bind-"+s alone, which a
\* /callback of s's own handshake had set, to that handshake's redirect URL
BindUsedOwnCookie ==
  (last.handler = "handleBind" /\ last.resp.status = 302)
    => LET s == LastParam(<< "s" >>)
           authResponse == AuthResponseOf(last.resp.location)
       IN /\ authResponse.ok
          /\ authResponse.val[RespSessionID] = s
          /\ \E c \in jar :
               /\ c.name = KubeBindPrefix \o s
               /\ [name |-> c.name, value |-> c.value] \in last.req.cookies
               /\ DecodeState(c.from).val[AuthCodeSessionID] = s
               /\ RedirectsTo(last.resp.location,
                              DecodeState(c.from).val[AuthCodeRedirectURL])
               /\ \E minted \in MintResults :
                    last.resp = handleBind([last.req EXCEPT !.cookies = { [name |-> c.name, value |-> c.value] }], minted)

\* C14: while two handshakes with distinct session ids are interleaved, no
\* request changes the backend's state, and each /bind depends on its own
\* cookie only: the auth_response for s carries SessionID s and goes to the
\* redirect URL of s's handshake, never the other's.
C14_HandshakesAreIsolated ==
  []BindUsedOwnCookie /\ [][testingAutoSelect' = testingAutoSelect]_vars

\* C14's case: with the cookies of both handshakes in the browser, a /bind of
\* one of them was answered with a redirect
C14_Witness ==
  /\ last.handler = "handleBind"
  /\ last.resp.status = 302
  /\ \A s \in DOMAIN phase : \E c \in last.req.cookies : c.name = KubeBindPrefix \o s
  /\ \E c, d \in jar :
       DecodeState(c.from).val[AuthCodeRedirectURL] # DecodeState(d.from).val[AuthCodeRedirectURL]

\* a /callback that sets a cookie replaces the browser's cookie of that name,
\* and no other request changes the browser's cookies
LastCallbackWins ==
  IF last'.handler = "handleCallback"
    THEN /\ \A n \in last'.resp.cookies :
              \A c \in jar' : c.name = n.name => c.value = n.value
         /\ \A c \in jar' :
              (\E n \in last'.resp.cookies : n.name = c.name) \/ c \in jar
    ELSE jar' = jar

\* the /bind last served for a session id of a handshake, sent with the
\* browser's cookies and answered with a redirect, took the redirect URL, the
\* session id and the claims from the browser's cookie of the session's name
BindUsedBrowsersCookie ==
  (/\ last.handler = "handleBind"
   /\ last.resp.status = 302
   /\ LastParam(<< "s" >>) \in DOMAIN phase
   /\ last.req.cookies = Cookies)
    => \E c \in jar :
         LET state == SessionDecode(c.value).val
             idToken == Unmarshal(ClaimFields, state.IDToken).val
             authResponse == AuthResponseOf(last.resp.location)
         IN /\ c.name = KubeBindPrefix \o LastParam(<< "s" >>)
            /\ RedirectsTo(last.resp.location, state.RedirectURL)
            /\ authResponse.ok
            /\ authResponse.val[RespSessionID] = state.SessionID
            /\ authResponse.val[RespID] = idToken[ClaimIss] \o << "/" >> \o idToken[ClaimSub]

\* C15: when handshakes use the same session id, the browser's cookie
\* "kube-bind-"+s is the one of the last /callback that set it, and a later
\* /bind?s= uses exactly that cookie's SessionState.
C15_LastCallbackCookieWins ==
  []BindUsedBrowsersCookie /\ [][LastCallbackWins]_vars

\* C15's case: after a handshake of the session id was bound, a /callback of
\* another handshake of the same session id set the cookie again
C15_Witness ==
  /\ last.handler = "handleCallback"
  /\ last.resp.status = 302
  /\ \E s \in DOMAIN phase :
       /\ phase[s] = "BOUND"
       /\ \E c \in jar : c.name = KubeBindPrefix \o s /\ c.value \in { n.value : n \in last.resp.cookies }

\* C16: every cookie handleCallback writes is named "kube-bind-" + the
\* SessionID the state decodes to, holds a SessionState with that SessionID
\* and the state's RedirectURL, and lives one hour; the response redirects to
\* /resources with s equal to that SessionID.
C16_CallbackCookieAndRedirect ==
  (last.handler = "handleCallback" /\ last.resp.cookies # {})
    => LET authCode == DecodeState(LastParam(<< "s", "t", "a", "t", "e" >>)).val
       IN /\ \A c \in last.resp.cookies :
               /\ c.name = KubeBindPrefix \o authCode[AuthCodeSessionID]
               /\ SessionDecode(c.value).val.SessionID = authCode[AuthCodeSessionID]
               /\ SessionDecode(c.value).val.RedirectURL = authCode[AuthCodeRedirectURL]
               /\ c.maxAge = 60 * 60
          /\ last.resp.status = 302
          /\ Route(ParseURL(last.resp.location).path) = "handleResources"
          /\ LocationParam(last.resp.location, << "s" >>) = authCode[AuthCodeSessionID]

\* the number of times name occurs in names
Occurrences(names, name) == Cardinality({ i \in DOMAIN names : names[i] = name })

C20_AutoSelectNeverFails ==
  (last.handler = "handleResources" /\ testingAutoSelect # <<>>)
    => (~last.resp.panicked /\ last.resp.status = 302)

\* C18: after a reconcile that listed the bindings, ResourcesValid is True
\* only if every resource of the export was fetched without error, has a
\* scope the export allows and converts to a CRD.
C18_ResourcesValidOnlyIfAllFetched ==
  (/\ reconciled.done
   /\ cluster.listed.err = ""
   /\ Get(export, "ResourcesValid").status = "True")
    => \A i \in DOMAIN export.resources :
         /\ cluster.fetched[i].err = ""
         /\ cluster.fetched[i].scope = "Namespaced" \/ export.scope = "Cluster"
         /\ cluster.fetched[i].convertible

\* the reconcile of this step listed n bindings without error and left
\* Connected True exactly if n = 1, False with the reason NoServiceBinding
\* for none and MultipleServiceBindings for several, and set SchemaInSync and
\* ServiceBindingReady from the binding exactly if n = 1; or the listing
\* failed, and reconcile returned its error and left the export as it was
ConnectedFollowsBindings ==
  LET listed == cluster.listed
      n == Len(listed.bindings)
      unknown == FalseCondition("Unknown", "Info")
      copied(from) == IF Get(listed.bindings[1], from) # NoCondition
                        THEN Get(listed.bindings[1], from) ELSE unknown
  IN IF listed.err # ""
       THEN reconciled'.err = << listed.err >> /\ export' = export
       ELSE /\ Get(export', "Connected").status = "True" <=> n = 1
            /\ n = 0 => Get(export', "Connected") = FalseCondition("NoServiceBinding", "Info")
            /\ n > 1 => Get(export', "Connected") = FalseCondition("MultipleServiceBindings", "Error")
            /\ n # 1 => /\ Get(export', "SchemaInSync") = Get(export, "SchemaInSync")
                        /\ Get(export', "ServiceBindingReady") = Get(export, "ServiceBindingReady")
            /\ n = 1 => /\ Get(export', "SchemaInSync") = copied("SchemaInSync")
                        /\ Get(export', "ServiceBindingReady") = copied("Ready")

\* C19: every reconcile leaves Connected True if and only if exactly one
\* binding was listed, copies the binding's conditions only then, and on a
\* failure of the listing returns the error and changes no condition.
C19_ConnectedIffOneBinding ==
  [][reconciled'.done => ConnectedFollowsBindings]_vars

\* C19's cases: after the conditions of one binding were copied, a reconcile
\* listed two bindings
C19_Witness ==
  /\ reconciled.done
  /\ Len(cluster.listed.bindings) = 2
  /\ Get(export, "Connected") = FalseCondition("MultipleServiceBindings", "Error")
  /\ Get(export, "SchemaInSync") = FalseCondition("SchemaDrift", "Warning")
  /\ Get(export, "ServiceBindingReady") = TrueCondition
=============================================================================
